---- MODULE Spec2Model ----
(***************************************************************************)
(* State-machine model of the Buddy AI backend:                            *)
(*   - backend/groq_engine.py : RateLimiter and GroqEngine (rate limiting, *)
(*     provider calls, streaming, per-conversation history);               *)
(*   - backend/user_memory.py : UserMemory (persisted user profiles), as   *)
(*     driven by the chat endpoint of backend/simple_main.py;              *)
(*   - backend/main.py : the chat endpoint in front of GroqEngine;         *)
(*   - backend/topic_handlers.py and the classifier of simple_main.py, as  *)
(*     functions applied call by call.                                     *)
(*                                                                         *)
(* Scheduling.  Every endpoint is an `async def` run by one asyncio event  *)
(* loop, and GroqEngine / UserMemory methods are plain synchronous code:   *)
(* a coroutine runs without interruption from one suspension point         *)
(* (`yield`, `await`) to the next.  One action of the model is one such    *)
(* uninterrupted run.                                                      *)
(*                                                                         *)
(* Time.  time.time() is modelled by the integer clock `now`; one window   *)
(* of the limiter is TicksPerWindow ticks.  A handler run reads the clock  *)
(* once (its instructions take microseconds, a tick is many seconds).      *)
(*                                                                         *)
(* The replies of the engine are sequences of tokens, "" is <<>>; the      *)
(* texts of the handlers are strings.                                      *)
(***************************************************************************)
EXTENDS Integers, Sequences, FiniteSets, TLC

\* ------------------------------------------------------------------ bounds
MaxRequestsBound == 2     \* max_requests is configured in 0..MaxRequestsBound
TicksPerWindow == 2       \* clock ticks in one time_window
MaxTime == 3              \* the clock stops advancing here
NumTasks == 2             \* streams that may be in flight together
MaxExchanges == 2         \* exchanges stored or in the making, over all conversations
MaxChunks == 2            \* content chunks one provider stream delivers
NumRequests == 2          \* chat requests the server receives
MaxStored == 22           \* exchanges stored in one conversation (above HistoryLimit)
MaxUpdates == 102         \* messages of one user (above ConversationCap)
Scale == 1000             \* the floats of a profile are kept in 1/Scale units, rounded down
MaxEarlier == 2           \* messages a user sends before repeating one
MaxRepeats == 23          \* times a user repeats a message (above BaselineWindow)
MaxCoefficient == 2       \* the coefficients of the equations are in -MaxCoefficient..MaxCoefficient

\* ------------------------------------------------------- program constants
HistoryLimit == 20        \* "Keep only last 20 exchanges per conversation"
ConversationCap == 100    \* "Keep only last 100 messages"
EmotionCap == 50          \* "Keep last 50 emotions"
BaselineWindow == 20      \* emotion_history[-20:]

\* ------------------------------------------------------------------ inputs
Tasks == 1..NumTasks
Messages == {"hello"}
ConversationIds == {"default", "c1"}
NoEmotion == "None"                          \* user_emotion = None
UserEmotions == {NoEmotion, "sadness"}       \* user_emotion["emotion"]
Tokens == {"a"}                              \* delta.content of a chunk
Completions == {<<"a">>}                     \* message.content of a completion
Reqs == 1..NumRequests                       \* chat requests
UserIds == {"u1", "u2"}                      \* conversation_id or "default"
ChatMessages == {"m1", "m2", ""}             \* ChatRequest.message
\* messages of each topic of detect_topic (the strings are the messages)
TopicMessages ==
    {"calculate 25 * 4", "solve 2x + 5 = 15", "i feel lonely today",
     "should i move abroad", "tell me a joke", "what is gravity",
     "write python code", "m1"}
\* what the string functions of user_memory.py compute on each message:
\*   "m1" is "hey 😀?"
\*   "m2" is "please remember that my name is anna and i kindly hope to finish
\*           writing a long detailed report about the garden near the river
\*           bank and the quiet little village market square this week"
\* len: len(message); emoji_count, formal_count, casual_count, word_count,
\* is_question: as _analyze_communication_style computes them; name: the name
\* _extract_facts finds ("" for none); goal: a goal keyword occurs
Text(message) ==
    CASE message = "m1" ->
           [len |-> 6, emoji_count |-> 1, formal_count |-> 0, casual_count |-> 1,
            word_count |-> 2, is_question |-> TRUE, name |-> "", goal |-> FALSE]
      [] message = "m2" ->
           [len |-> 185, emoji_count |-> 0, formal_count |-> 2, casual_count |-> 0,
            word_count |-> 34, is_question |-> FALSE, name |-> "Anna", goal |-> TRUE]
      [] message = "calculate 25 * 4" ->
           [len |-> 16, emoji_count |-> 0, formal_count |-> 0, casual_count |-> 0,
            word_count |-> 4, is_question |-> FALSE, name |-> "", goal |-> FALSE]
      [] message = "solve 2x + 5 = 15" ->
           [len |-> 17, emoji_count |-> 0, formal_count |-> 0, casual_count |-> 0,
            word_count |-> 6, is_question |-> FALSE, name |-> "", goal |-> FALSE]
      [] message = "i feel lonely today" ->
           [len |-> 19, emoji_count |-> 0, formal_count |-> 0, casual_count |-> 0,
            word_count |-> 4, is_question |-> FALSE, name |-> "", goal |-> FALSE]
      [] message = "should i move abroad" ->
           [len |-> 20, emoji_count |-> 0, formal_count |-> 0, casual_count |-> 0,
            word_count |-> 4, is_question |-> FALSE, name |-> "", goal |-> FALSE]
      [] message = "tell me a joke" ->
           [len |-> 14, emoji_count |-> 0, formal_count |-> 0, casual_count |-> 1,
            word_count |-> 4, is_question |-> FALSE, name |-> "", goal |-> FALSE]
      [] message = "what is gravity" ->
           [len |-> 15, emoji_count |-> 0, formal_count |-> 0, casual_count |-> 0,
            word_count |-> 3, is_question |-> FALSE, name |-> "", goal |-> FALSE]
      [] message = "write python code" ->
           [len |-> 17, emoji_count |-> 0, formal_count |-> 0, casual_count |-> 0,
            word_count |-> 3, is_question |-> FALSE, name |-> "", goal |-> FALSE]
      [] message = "feeling sad" ->
           [len |-> 11, emoji_count |-> 0, formal_count |-> 0, casual_count |-> 0,
            word_count |-> 2, is_question |-> FALSE, name |-> "", goal |-> FALSE]
      [] message = "sad and lonely" ->
           [len |-> 14, emoji_count |-> 0, formal_count |-> 0, casual_count |-> 0,
            word_count |-> 3, is_question |-> FALSE, name |-> "", goal |-> FALSE]
      [] message = "hello there" ->
           [len |-> 11, emoji_count |-> 0, formal_count |-> 0, casual_count |-> 0,
            word_count |-> 2, is_question |-> FALSE, name |-> "", goal |-> FALSE]
      [] message = "so happy" ->
           [len |-> 8, emoji_count |-> 0, formal_count |-> 0, casual_count |-> 0,
            word_count |-> 2, is_question |-> FALSE, name |-> "", goal |-> FALSE]
      [] OTHER ->
           [len |-> 0, emoji_count |-> 0, formal_count |-> 0, casual_count |-> 0,
            word_count |-> 0, is_question |-> FALSE, name |-> "", goal |-> FALSE]
\* emotion readings of analyze_emotion_and_context (sentiment in tenths)
Readings == {[emotion |-> "sadness", sentiment |-> -2],
             [emotion |-> "neutral", sentiment |-> 0]}

VARIABLES
    now,                    \* time.time()
    max_requests,           \* RateLimiter.max_requests
    requests,               \* RateLimiter.requests (deque of timestamps)
    conversation_history,   \* GroqEngine.conversation_history (dict)
    exchanged,              \* per conversation id, the exchanges stored since it was last cleared
    tasks,                  \* the streams in flight (suspended generators)
    ret,                    \* what the latest call returned, or a stream has yielded so far
    disk,                   \* UserMemory: the profile files, {storage_path}/{user_id}.json
    chats,                  \* the chat requests of the server, by request
    committed,              \* per user, the messages handled since the file was last absent
    called                  \* the call of a handler function: its name, input and output

engine_vars == <<max_requests, requests, conversation_history, exchanged, tasks, ret>>
memory_vars == <<disk, chats, committed>>
vars == <<now, max_requests, requests, conversation_history, exchanged, tasks, ret,
          disk, chats, committed, called>>

\* RateLimiter.__init__: time_window (default 60 s), in clock ticks
time_window == TicksPerWindow

Max(a, b) == IF a >= b THEN a ELSE b
Min(a, b) == IF a <= b THEN a ELSE b

\* ------------------------------------------------------------- RateLimiter

\* mutant of popleft_old: "<" for "<=", an entry exactly time_window old stays
RECURSIVE popleft_old_strict(_, _)
popleft_old_strict(reqs, t) ==
    IF reqs # <<>> /\ Head(reqs) < t - time_window
    THEN popleft_old_strict(Tail(reqs), t)
    ELSE reqs

\* the eviction loop of can_make_request:
\*   while self.requests and self.requests[0] <= now - self.time_window: popleft()
RECURSIVE popleft_old(_, _)
popleft_old(reqs, t) ==
    IF reqs # <<>> /\ Head(reqs) <= t - time_window
    THEN popleft_old(Tail(reqs), t)
    ELSE reqs

\* can_make_request: its return value (its effect on requests is popleft_old)
can_make_request(reqs, t) == Len(popleft_old(reqs, t)) < max_requests

\* mutant of add_request: the attempt is not recorded
add_request_dropped(reqs, t) == reqs

\* add_request
add_request(reqs, t) == Append(reqs, t)

\* GroqEngine.wait_for_rate_limit: its return value (its effect is popleft_old)
wait_for_rate_limit(reqs, t) ==
    IF can_make_request(reqs, t)
    THEN 0
    ELSE IF popleft_old(reqs, t) # <<>>
         THEN Max(0, (Head(popleft_old(reqs, t)) + time_window) - t)
         ELSE 0

\* the guard of generate_response and of stream_response:
\*   if not can_make_request(): wait_time = wait_for_rate_limit(); if wait_time > 0: <reject>
rate_limit_exceeded(reqs, t) ==
    /\ ~can_make_request(reqs, t)
    /\ wait_for_rate_limit(reqs, t) > 0

\* --------------------------------------------------------------- GroqEngine

\* _get_fallback_response: the table random.choice draws from, by emotion
\* (each template is a fixed non-empty string, named here by table and index)
_get_fallback_response(message, user_emotion) ==
    IF user_emotion # NoEmotion
    THEN IF user_emotion \in {"sadness", "sad"}
         THEN {<<"sad_1">>, <<"sad_2">>, <<"sad_3">>}
         ELSE IF user_emotion \in {"joy", "happy"}
         THEN {<<"joy_1">>, <<"joy_2">>, <<"joy_3">>}
         ELSE IF user_emotion \in {"anger", "angry"}
         THEN {<<"anger_1">>, <<"anger_2">>, <<"anger_3">>}
         ELSE IF user_emotion \in {"fear", "scared"}
         THEN {<<"fear_1">>, <<"fear_2">>, <<"fear_3">>}
         ELSE {<<"neutral_1">>, <<"neutral_2">>, <<"neutral_3">>}
    ELSE {<<"generic_1">>, <<"generic_2">>, <<"generic_3">>, <<"generic_4">>}

\* mutant of _update_conversation: the new exchange replaces the stored ones
_update_conversation_replacing(hist, conversation_id, user_message, ai_response) ==
    [c \in DOMAIN hist \cup {conversation_id} |->
        IF c = conversation_id
        THEN <<[user |-> user_message, assistant |-> ai_response]>>
        ELSE hist[c]]

\* mutant of _update_conversation: over the limit, the oldest 20 are kept
_update_conversation_keep_oldest(hist, conversation_id, user_message, ai_response) ==
    LET old == IF conversation_id \in DOMAIN hist THEN hist[conversation_id] ELSE <<>>
        appended == Append(old, [user |-> user_message, assistant |-> ai_response])
        kept == IF Len(appended) > HistoryLimit
                THEN SubSeq(appended, 1, HistoryLimit)
                ELSE appended
    IN  [c \in DOMAIN hist \cup {conversation_id} |->
            IF c = conversation_id THEN kept ELSE hist[c]]

\* _update_conversation (the entry's "timestamp" field, which nothing reads,
\* is left out)
_update_conversation(hist, conversation_id, user_message, ai_response) ==
    LET old == IF conversation_id \in DOMAIN hist THEN hist[conversation_id] ELSE <<>>
        appended == Append(old, [user |-> user_message, assistant |-> ai_response])
        kept == IF Len(appended) > HistoryLimit
                THEN SubSeq(appended, Len(appended) - HistoryLimit + 1, Len(appended))
                ELSE appended
    IN  [c \in DOMAIN hist \cup {conversation_id} |->
            IF c = conversation_id THEN kept ELSE hist[c]]

\* mutant of clear_conversation: every conversation is cleared
clear_conversation_all(hist, conversation_id) == <<>>

\* clear_conversation
clear_conversation(hist, conversation_id) ==
    [c \in DOMAIN hist \ {conversation_id} |-> hist[c]]

\* "Add conversation history (last 10 messages)": history[-10:]
ReplayLimit == 10

\* the system prompt of _build_messages
system_prompt ==
    "You are Buddy, a warm, empathetic AI companion designed to provide emotional support and engaging conversation. \n"
    \o "\n"
    \o "Key traits:\n"
    \o "- Be genuinely caring and supportive\n"
    \o "- Match the user's emotional tone appropriately\n"
    \o "- Provide helpful advice when asked\n"
    \o "- Keep responses conversational and natural\n"
    \o "- Show genuine interest in the user's wellbeing\n"
    \o "- Be encouraging and positive while being realistic\n"
    \o "\n"
    \o "Remember to:\n"
    \o "- Listen actively to what the user is sharing\n"
    \o "- Acknowledge their emotions\n"
    \o "- Provide thoughtful, personalized responses\n"
    \o "- Ask follow-up questions when appropriate"

\* the f-string of the emotion context
emotion_context(emotion) ==
    "User's current emotional state: " \o emotion
    \o ". Please respond with appropriate empathy and support."

\* the fragments of the entries of a history: for each entry the user's
\* message, then the assistant's reply
RECURSIVE Fragmented(_)
Fragmented(history) ==
    IF history = <<>> THEN <<>>
    ELSE <<[role |-> "user", content |-> Head(history).user],
           [role |-> "assistant", content |-> Head(history).assistant]>>
         \o Fragmented(Tail(history))

\* mutant of _build_messages: the whole stored history is replayed
_build_messages_whole_history(hist, message, conversation_id, user_emotion) ==
    <<[role |-> "system", content |-> system_prompt]>>
    \o (IF user_emotion # NoEmotion /\ user_emotion # "neutral"
        THEN <<[role |-> "system", content |-> emotion_context(user_emotion)]>>
        ELSE <<>>)
    \o (IF conversation_id \in DOMAIN hist
        THEN Fragmented(hist[conversation_id])
        ELSE <<>>)
    \o <<[role |-> "user", content |-> message]>>

\* GroqEngine._build_messages (its `context` parameter is never read;
\* user_emotion is the emotion of the dictionary, or None)
_build_messages(hist, message, conversation_id, user_emotion) ==
    <<[role |-> "system", content |-> system_prompt]>>
    \o (IF user_emotion # NoEmotion /\ user_emotion # "neutral"
        THEN <<[role |-> "system", content |-> emotion_context(user_emotion)]>>
        ELSE <<>>)
    \o (IF conversation_id \in DOMAIN hist
        THEN LET stored == hist[conversation_id]
                 history == SubSeq(stored, Max(1, Len(stored) - ReplayLimit + 1),
                                   Len(stored))
             IN  Fragmented(history)
        ELSE <<>>)
    \o <<[role |-> "user", content |-> message]>>

\* mutant of ErrorEvent: the rejection event is not marked done
ErrorEvent_not_done(wait) == [key |-> "error", token |-> <<>>, wait |-> wait, done |-> FALSE]

\* mutant of TokenEvent: every token event is marked done
TokenEvent_always_done(token, done) ==
    [key |-> "token", token |-> token, wait |-> 0, done |-> TRUE]

\* the server-sent events stream_response yields
TokenEvent(token, done) == [key |-> "token", token |-> token, wait |-> 0, done |-> done]
ErrorEvent(wait) == [key |-> "error", token |-> <<>>, wait |-> wait, done |-> TRUE]

\* a slot with no stream in flight
IdleTask ==
    [pc |-> "idle", message |-> "", conversation_id |-> "", user_emotion |-> NoEmotion,
     full_response |-> <<>>, events |-> <<>>]

\* what a call returned: op, the outcome, the values the outcome carries
\* (ok: the boolean returned, or whether the call was admitted; wait: the wait
\* time; reply: the text; events: the events yielded), and whether the run
\* invoked the provider (client.chat.completions.create)
Return(op, outcome, ok, wait, reply, events) ==
    [op |-> op, outcome |-> outcome, ok |-> ok, wait |-> wait, reply |-> reply,
     events |-> events,
     called_provider |-> outcome \in {"called", "fallback", "completed",
                                      "stream_returned", "yielded"}]

RECURSIVE SumLen(_, _)
SumLen(hist, ids) ==
    IF ids = {} THEN 0
    ELSE LET c == CHOOSE x \in ids : TRUE
         IN  Len(hist[c]) + SumLen(hist, ids \ {c})

\* exchanges stored, plus the streams in flight that may still store one
Exchanges ==
    SumLen(conversation_history, DOMAIN conversation_history)
    + Cardinality({t \in Tasks : tasks[t].pc = "streaming"})

\* the log of stored exchanges after _update_conversation has stored one more
Stored(conversation_id, user_message, ai_response) ==
    [exchanged EXCEPT ![conversation_id] =
        Append(@, [user |-> user_message, assistant |-> ai_response])]

\* a new call may start (the model's bound); a stream takes the lowest free slot
CanStart == Exchanges < MaxExchanges
FreeSlot(t) ==
    /\ tasks[t].pc = "idle"
    /\ \A u \in Tasks : u < t => tasks[u].pc # "idle"

\* --------------------------------------------------------------- UserMemory

\* _create_new_profile (the fields the update pipeline of this model writes)
_create_new_profile(user_id) ==
    [user_id |-> user_id,
     total_messages |-> 0,
     conversation_history |-> <<>>,
     emotion_history |-> <<>>,
     baseline_sentiment |-> [sum |-> 0, n |-> 1],
     emoji_usage |-> 0,
     humor_preference |-> Scale \div 2,
     formality |-> Scale \div 2,
     verbosity |-> Scale \div 2,
     question_frequency |-> 0,
     average_message_length |-> 0,
     risk_tolerance |-> Scale \div 2,
     analytical_vs_intuitive |-> Scale \div 2,
     memory_facts |-> [personal |-> {}, goals |-> <<>>],
     last_interaction |-> -1]

\* mutant of load_profile: the stored file is ignored
load_profile_ignoring_file(files, user_id) == _create_new_profile(user_id)

\* load_profile: the file's content if the file exists, else a new profile
load_profile(files, user_id) ==
    IF user_id \in DOMAIN files THEN files[user_id] ELSE _create_new_profile(user_id)

\* mutant of save_profile: nothing is written
save_profile_not_written(files, user_id, profile, t) == files

\* save_profile: stamps last_interaction (in the dict it was given) and writes
\* the file.  The file holds json.dump(profile) and load_profile returns
\* json.load of it: every value of a profile is a str, an int, a float, None,
\* a list or a dict with str keys, which json writes and reads back unchanged.
save_profile(files, user_id, profile, t) ==
    [u \in DOMAIN files \cup {user_id} |->
        IF u = user_id THEN [profile EXCEPT !.last_interaction = t] ELSE files[u]]

\* the last n elements of a sequence: seq[-n:]
LastN(seq, n) == IF Len(seq) > n THEN SubSeq(seq, Len(seq) - n + 1, Len(seq)) ELSE seq

RECURSIVE SumSentiment(_)
SumSentiment(entries) ==
    IF entries = <<>> THEN 0 ELSE Head(entries).sentiment + SumSentiment(Tail(entries))

\* mutant of _update_emotional_profile: the baseline is a running mean, each
\* new sentiment accumulated into it
_update_emotional_profile_running(profile, emotion) ==
    LET history == LastN(Append(profile.emotion_history, emotion), EmotionCap)
    IN  [profile EXCEPT !.emotion_history = history,
                        !.baseline_sentiment =
                            IF profile.emotion_history = <<>>
                            THEN [sum |-> emotion.sentiment, n |-> 1]
                            ELSE [sum |-> @.sum + emotion.sentiment, n |-> @.n + 1]]

\* mutant of _update_emotional_profile: the sum of the last 20 sentiments is
\* divided by the length of the whole history
_update_emotional_profile_whole_length(profile, emotion) ==
    LET history == LastN(Append(profile.emotion_history, emotion), EmotionCap)
        recent == LastN(history, BaselineWindow)
    IN  [profile EXCEPT !.emotion_history = history,
                        !.baseline_sentiment =
                            [sum |-> SumSentiment(recent), n |-> Len(history)]]

\* _update_emotional_profile: append, keep the last 50, baseline = mean of the
\* last 20 sentiments (kept as the fraction sum/n, in tenths)
_update_emotional_profile(profile, emotion) ==
    LET history == LastN(Append(profile.emotion_history, emotion), EmotionCap)
        recent == LastN(history, BaselineWindow)
    IN  [profile EXCEPT !.emotion_history = history,
                        !.baseline_sentiment =
                            [sum |-> SumSentiment(recent), n |-> Len(recent)]]

\* mutant of _analyze_communication_style: formality and verbosity are not
\* clamped
_analyze_communication_style_unclamped(profile, message) ==
    LET text == Text(message)
    IN  [profile EXCEPT
           !.emoji_usage =
               (@ * 9 + (text.emoji_count * Scale) \div Max(text.len, 1)) \div 10,
           !.formality =
               IF text.formal_count > text.casual_count THEN @ + Scale \div 10
               ELSE IF text.casual_count > text.formal_count THEN @ - Scale \div 10
               ELSE @,
           !.average_message_length =
               IF @ = 0 THEN text.word_count * Scale
               ELSE (@ * 9 + text.word_count * Scale) \div 10,
           !.verbosity =
               IF text.word_count > 30 THEN @ + Scale \div 20
               ELSE IF text.word_count < 10 THEN @ - Scale \div 20
               ELSE @,
           !.question_frequency =
               (@ * 95 + (IF text.is_question THEN Scale ELSE 0) * 5) \div 100]

\* _analyze_communication_style: emoji_usage and question_frequency are
\* smoothed (0.9/0.1 and 0.95/0.05), formality moves by 0.1 and verbosity by
\* 0.05 within [0, 1], average_message_length is the first word count, then
\* smoothed
_analyze_communication_style(profile, message) ==
    LET text == Text(message)
    IN  [profile EXCEPT
           !.emoji_usage =
               (@ * 9 + (text.emoji_count * Scale) \div Max(text.len, 1)) \div 10,
           !.formality =
               IF text.formal_count > text.casual_count
               THEN Min(@ + Scale \div 10, Scale)
               ELSE IF text.casual_count > text.formal_count
               THEN Max(@ - Scale \div 10, 0)
               ELSE @,
           !.average_message_length =
               IF @ = 0 THEN text.word_count * Scale
               ELSE (@ * 9 + text.word_count * Scale) \div 10,
           !.verbosity =
               IF text.word_count > 30 THEN Min(@ + Scale \div 20, Scale)
               ELSE IF text.word_count < 10 THEN Max(@ - Scale \div 20, 0)
               ELSE @,
           !.question_frequency =
               (@ * 95 + (IF text.is_question THEN Scale ELSE 0) * 5) \div 100]

\* mutant of _extract_facts: every message makes the user a little bolder
_extract_facts_bolder(profile, message) ==
    [profile EXCEPT !.risk_tolerance = Min(@ + Scale \div 10, Scale)]

\* _extract_facts: the name found replaces the stored one; a message with a
\* goal keyword is stored among the goals
_extract_facts(profile, message) ==
    LET text == Text(message)
        personal == profile.memory_facts.personal
        goals == profile.memory_facts.goals
    IN  [profile EXCEPT !.memory_facts =
           [personal |-> IF text.name # ""
                         THEN {f \in personal : f[1] # "name"} \cup {<<"name", text.name>>}
                         ELSE personal,
            goals |-> IF text.goal THEN Append(goals, message) ELSE goals]]

\* the keys update_from_message reads of the loaded profile for a message:
\* the counter, the style fields and the two histories always, formality,
\* verbosity and memory_facts when the message moves them
keys_read(message) ==
    LET text == Text(message)
    IN  {"total_messages", "emoji_usage", "average_message_length",
         "question_frequency", "emotion_history", "conversation_history"}
        \cup (IF text.formal_count # text.casual_count THEN {"formality"} ELSE {})
        \cup (IF text.word_count > 30 \/ text.word_count < 10
              THEN {"verbosity"} ELSE {})
        \cup (IF text.name # "" \/ text.goal THEN {"memory_facts"} ELSE {})

\* update_from_message raises KeyError: the loaded dict lacks a key it reads
raises_KeyError(files, user_id, message) ==
    ~(keys_read(message) \subseteq DOMAIN load_profile(files, user_id))

\* update_from_message from load_profile up to the conversation entry:
\* counter, communication style, emotional profile, facts
Learned(files, user_id, message, emotion) ==
    LET loaded == load_profile(files, user_id)
        counted == [loaded EXCEPT !.total_messages = @ + 1]
        styled == _analyze_communication_style(counted, message)
        felt == _update_emotional_profile(styled, emotion)
    IN  _extract_facts(felt, message)

\* mutant of LastN: the first n elements are kept
FirstN(seq, n) == IF Len(seq) > n THEN SubSeq(seq, 1, n) ELSE seq

\* mutant of update_from_message: over the limit, the oldest 100 messages stay
update_from_message_keep_oldest(files, user_id, message, emotion) ==
    [Learned(files, user_id, message, emotion) EXCEPT !.conversation_history =
        FirstN(Append(@, [message |-> message, emotion |-> emotion]),
               ConversationCap)]

\* update_from_message, from load_profile to the profile it hands to
\* save_profile: what it learned, the conversation entry, the last 100
update_from_message(files, user_id, message, emotion) ==
    [Learned(files, user_id, message, emotion) EXCEPT !.conversation_history =
        LastN(Append(@, [message |-> message, emotion |-> emotion]),
              ConversationCap)]

\* ------------------------------------------------------------ TopicHandler

\* the text a message of the model stands for: "m1" and "m2" are short names
\* of longer texts (the emoji of "m1" is in no keyword list and is left out),
\* every other message is its own text
Wording(message) ==
    CASE message = "m1" -> "hey ?"
      [] message = "m2" ->
           "please remember that my name is anna and i kindly hope to finish "
           \o "writing a long detailed report about the garden near the river "
           \o "bank and the quiet little village market square this week"
      [] OTHER -> message

\* str.lower() on the letters A..Z
UpperCase == "ABCDEFGHIJKLMNOPQRSTUVWXYZ"
LowerCase == "abcdefghijklmnopqrstuvwxyz"
lower_char(c) ==
    IF \E i \in 1..Len(UpperCase) : SubSeq(UpperCase, i, i) = c
    THEN LET i == CHOOSE i \in 1..Len(UpperCase) : SubSeq(UpperCase, i, i) = c
         IN  SubSeq(LowerCase, i, i)
    ELSE c

\* each half of the string in lower case, down to single characters
RECURSIVE lower(_)
lower(s) ==
    IF Len(s) <= 1 THEN lower_char(s)
    ELSE lower(SubSeq(s, 1, Len(s) \div 2))
         \o lower(SubSeq(s, Len(s) \div 2 + 1, Len(s)))

\* `w in s` for two strings: w is a substring of s
Contains(s, w) ==
    \E i \in 1..(Len(s) - Len(w) + 1) : SubSeq(s, i, i + Len(w) - 1) = w

\* any(word in s for word in words)
AnyIn(words, s) == \E w \in words : Contains(s, w)

\* the operator and keyword lists of detect_topic
MathOperators == {"+", "-", "*", "/", "=", "^", "%"}
MathWords ==
    {"solve", "calculate", "equation", "integral", "derivative", "math",
     "multiply", "divide", "add", "subtract"}
EmotionalWords ==
    {"feel", "emotion", "sad", "happy", "angry", "worried", "anxious",
     "depressed", "lonely", "excited", "scared", "frustrated"}
DecisionWords ==
    {"should i", "what if", "decide", "choice", "option", "help me choose",
     "which one"}
RandomWords ==
    {"joke", "fun", "random", "interesting", "tell me about", "story", "fact"}
KnowledgeWords ==
    {"what is", "who is", "how does", "why", "explain", "definition", "meaning"}
TechWords ==
    {"code", "programming", "python", "javascript", "html", "css", "algorithm",
     "function"}

\* mutant of detect_topic: the knowledge keywords are looked at before the
\* random ones
detect_topic_knowledge_before_random(message) ==
    LET text == Wording(message)
        lower_msg == lower(text)
    IN  IF AnyIn(MathOperators, text) \/ AnyIn(MathWords, lower_msg) THEN "math"
        ELSE IF AnyIn(EmotionalWords, lower_msg) THEN "emotional"
        ELSE IF AnyIn(DecisionWords, lower_msg) THEN "decision"
        ELSE IF AnyIn(KnowledgeWords, lower_msg) THEN "knowledge"
        ELSE IF AnyIn(RandomWords, lower_msg) THEN "random"
        ELSE IF AnyIn(TechWords, lower_msg) THEN "tech"
        ELSE "general"

\* TopicHandler.detect_topic: the operators are looked for in the message, the
\* keywords in its lower case; the first test that succeeds returns
detect_topic(message) ==
    LET text == Wording(message)
        lower_msg == lower(text)
    IN  IF AnyIn(MathOperators, text) \/ AnyIn(MathWords, lower_msg) THEN "math"
        ELSE IF AnyIn(EmotionalWords, lower_msg) THEN "emotional"
        ELSE IF AnyIn(DecisionWords, lower_msg) THEN "decision"
        ELSE IF AnyIn(RandomWords, lower_msg) THEN "random"
        ELSE IF AnyIn(KnowledgeWords, lower_msg) THEN "knowledge"
        ELSE IF AnyIn(TechWords, lower_msg) THEN "tech"
        ELSE "general"

\* ------------------------------------------------------------- MathHandler

\* str.replace(old, new), old not empty
RECURSIVE replace(_, _, _)
replace(s, old, new) ==
    IF s = "" THEN ""
    ELSE IF Len(s) >= Len(old) /\ SubSeq(s, 1, Len(old)) = old
         THEN new \o replace(SubSeq(s, Len(old) + 1, Len(s)), old, new)
         ELSE Head(s) \o replace(Tail(s), old, new)

\* str.lstrip(), str.rstrip() and str.strip() on blanks
RECURSIVE lstrip(_)
lstrip(s) == IF s # "" /\ Head(s) = " " THEN lstrip(Tail(s)) ELSE s

RECURSIVE rstrip(_)
rstrip(s) ==
    IF s # "" /\ SubSeq(s, Len(s), Len(s)) = " "
    THEN rstrip(SubSeq(s, 1, Len(s) - 1))
    ELSE s

strip(s) == lstrip(rstrip(s))

\* str.split(sep): the list of the parts between the occurrences of sep
RECURSIVE split(_, _)
split(s, sep) ==
    IF ~Contains(s, sep) THEN <<s>>
    ELSE LET n == Len(sep)
             i == CHOOSE i \in 1..(Len(s) - n + 1) :
                     /\ SubSeq(s, i, i + n - 1) = sep
                     /\ \A j \in 1..(i - 1) : SubSeq(s, j, j + n - 1) # sep
         IN  <<SubSeq(s, 1, i - 1)>> \o split(SubSeq(s, i + n, Len(s)), sep)

\* ''.join(c for c in s if c in allowed)
RECURSIVE keep_chars(_, _)
keep_chars(s, allowed) ==
    IF s = "" THEN ""
    ELSE (IF Contains(allowed, Head(s)) THEN Head(s) ELSE "")
         \o keep_chars(Tail(s), allowed)

Digits == "0123456789"
isdigit(c) == c # "" /\ Contains(Digits, c)
digit_value(c) == (CHOOSE i \in 1..Len(Digits) : SubSeq(Digits, i, i) = c) - 1

\* the longest prefix of digits of s
RECURSIVE digit_prefix(_)
digit_prefix(s) ==
    IF s # "" /\ isdigit(Head(s)) THEN Head(s) \o digit_prefix(Tail(s)) ELSE ""

\* int of a string of digits
RECURSIVE digits_value(_)
digits_value(s) ==
    IF s = "" THEN 0
    ELSE digits_value(SubSeq(s, 1, Len(s) - 1)) * 10
         + digit_value(SubSeq(s, Len(s), Len(s)))

\* numbers are fractions num/den with den > 0; a Python float holds the
\* nearest binary fraction of it
Number(num, den) == [num |-> num, den |-> den]
Same(a, b) == a.num * b.den = b.num * a.den
Plus(a, b) == Number(a.num * b.den + b.num * a.den, a.den * b.den)
Minus(a, b) == Number(a.num * b.den - b.num * a.den, a.den * b.den)
Times(a, b) == Number(a.num * b.num, a.den * b.den)
Over(a, b) ==
    IF b.num > 0 THEN Number(a.num * b.den, a.den * b.num)
    ELSE Number(-(a.num * b.den), -(a.den * b.num))

\* the outcome of a conversion or evaluation: a value, or the exception raised
Value(v) == [ok |-> TRUE, value |-> v, error |-> ""]
Raised(error) == [ok |-> FALSE, value |-> Number(0, 1), error |-> error]

\* float(s) for the numerals of the model: an optional sign and digits.
\* Anything else raises ValueError.
float(s) ==
    LET body == IF s # "" /\ Head(s) \in {"+", "-"} THEN Tail(s) ELSE s
    IN  IF body # "" /\ digit_prefix(body) = body
        THEN Value(Number(IF Head(s) = "-" THEN -digits_value(body)
                                           ELSE digits_value(body), 1))
        ELSE Raised("ValueError")

\* eval(expr) for the expressions _handle_arithmetic passes on: numerals of
\* digits, + - * / **, unary signs, parentheses and blanks, with Python's
\* precedence.  A step of the evaluation yields the value read and the rest
\* of the text, or the exception raised.
Parsed(v, rest) == [ok |-> TRUE, value |-> v, error |-> "", rest |-> rest]
Failed(error) == [ok |-> FALSE, value |-> Number(0, 1), error |-> error, rest |-> ""]

StartsWith(s, w) == Len(s) >= Len(w) /\ SubSeq(s, 1, Len(w)) = w
After(s, n) == SubSeq(s, n + 1, Len(s))

RECURSIVE int_pow(_, _)
int_pow(b, n) == IF n = 0 THEN Number(1, 1) ELSE Times(b, int_pow(b, n - 1))

\* base ** exponent, for an integer exponent
power(b, e) ==
    LET n == e.num \div e.den
    IN  IF n >= 0 THEN Value(int_pow(b, n))
        ELSE IF b.num = 0 THEN Raised("ZeroDivisionError")
        ELSE Value(Over(Number(1, 1), int_pow(b, -n)))

\* one level of Python's expression grammar on the text s: a sum of terms,
\* a term of factors, a factor with its signs, a power, an atom (a numeral or
\* a parenthesis); "more_sum" and "more_term" continue a sum or a term whose
\* value so far is `left`
RECURSIVE eval_level(_, _, _)
eval_level(level, left, s) ==
    LET t == lstrip(s)
        zero == Number(0, 1)
    IN  CASE level = "atom" ->
               IF t = "" THEN Failed("SyntaxError")
               ELSE IF Head(t) = "("
               THEN LET e == eval_level("sum", zero, Tail(t))
                        r == lstrip(e.rest)
                    IN  IF ~e.ok THEN e
                        ELSE IF StartsWith(r, ")") THEN Parsed(e.value, Tail(r))
                        ELSE Failed("SyntaxError")
               ELSE IF isdigit(Head(t))
               THEN LET d == digit_prefix(t)
                    IN  IF Len(d) > 1 /\ Head(d) = "0" /\ digits_value(d) # 0
                        THEN Failed("SyntaxError")
                        ELSE Parsed(Number(digits_value(d), 1), After(t, Len(d)))
               ELSE Failed("SyntaxError")
          [] level = "power" ->
               LET a == eval_level("atom", zero, t)
                   r == lstrip(a.rest)
               IN  IF ~a.ok THEN a
                   ELSE IF StartsWith(r, "**")
                   THEN LET e == eval_level("factor", zero, After(r, 2))
                            v == power(a.value, e.value)
                        IN  IF ~e.ok THEN e
                            ELSE IF v.ok THEN Parsed(v.value, e.rest)
                            ELSE Failed(v.error)
                   ELSE a
          [] level = "factor" ->
               IF StartsWith(t, "-")
               THEN LET f == eval_level("factor", zero, Tail(t))
                    IN  IF f.ok THEN Parsed(Minus(zero, f.value), f.rest) ELSE f
               ELSE IF StartsWith(t, "+") THEN eval_level("factor", zero, Tail(t))
               ELSE eval_level("power", zero, t)
          [] level = "more_term" ->
               IF StartsWith(t, "*") /\ ~StartsWith(t, "**")
               THEN LET f == eval_level("factor", zero, Tail(t))
                    IN  IF f.ok
                        THEN eval_level("more_term", Times(left, f.value), f.rest)
                        ELSE f
               ELSE IF StartsWith(t, "/")
               THEN LET f == eval_level("factor", zero, Tail(t))
                    IN  IF ~f.ok THEN f
                        ELSE IF f.value.num = 0 THEN Failed("ZeroDivisionError")
                        ELSE eval_level("more_term", Over(left, f.value), f.rest)
               ELSE Parsed(left, t)
          [] level = "term" ->
               LET f == eval_level("factor", zero, t)
               IN  IF f.ok THEN eval_level("more_term", f.value, f.rest) ELSE f
          [] level = "more_sum" ->
               IF StartsWith(t, "+")
               THEN LET f == eval_level("term", zero, Tail(t))
                    IN  IF f.ok
                        THEN eval_level("more_sum", Plus(left, f.value), f.rest)
                        ELSE f
               ELSE IF StartsWith(t, "-")
               THEN LET f == eval_level("term", zero, Tail(t))
                    IN  IF f.ok
                        THEN eval_level("more_sum", Minus(left, f.value), f.rest)
                        ELSE f
               ELSE Parsed(left, t)
          [] level = "sum" ->
               LET f == eval_level("term", zero, t)
               IN  IF f.ok THEN eval_level("more_sum", f.value, f.rest) ELSE f

eval(expr) ==
    LET e == eval_level("sum", Number(0, 1), expr)
    IN  IF ~e.ok THEN Raised(e.error)
        ELSE IF lstrip(e.rest) # "" THEN Raised("SyntaxError")
        ELSE Value(e.value)

\* what a handler of MathHandler returns: the text up to its first line
\* break, with the f-string fields in braces; `shown` is the text of the user
\* the output repeats, `value` the number in it, `caught` the exception an
\* `except` of the handler has caught, `raised` the exception that leaves it
Answer(text, value, shown) ==
    [text |-> text, value |-> value, shown |-> shown, answered |-> TRUE,
     caught |-> "", raised |-> ""]
Request(text, caught) ==
    [text |-> text, value |-> Number(0, 1), shown |-> "", answered |-> FALSE,
     caught |-> caught, raised |-> ""]

ArithmeticResult == "**{result}**"
ClearerExpression == "I need a clearer mathematical expression to solve."
CouldNotParse ==
    "I couldn't parse this mathematical expression. "
    \o "Try something like '25 * 4' or '100 / 5'"
EquationSolution == "**Solution: x = {x}**"
RephraseEquation ==
    "I can solve simple linear equations like '2x + 5 = 15' or '3x - 7 = 20'. "
    \o "Could you rephrase your equation?"
PercentageResult == "**{percent}% of {value} = {result}**"
PercentageFormats ==
    "For percentages, try: 'What is 20% of 80?' or 'Calculate 15% of 200'"
PercentageTry ==
    "For percentage problems, try asking: "
    \o "'What is 20% of 80?' or 'Calculate 25% of 120'"
AgeProblems ==
    "I can help with age problems! For example: 'If John is 5 years older "
    \o "than Mary, and Mary is 20, how old is John?' "
    \o "The answer would be 25 years old."
MoneyProblems ==
    "For money problems, I can help! For example: 'If 3 apples cost $6, how "
    \o "much does 1 apple cost?' The answer would be $2 per apple."
WordProblems ==
    "I can help with word problems! Try rephrasing with specific numbers and "
    \o "operations, like: 'If I have 10 apples and eat 3, how many are left?'"
MathHelp ==
    "I can help with math! Try asking: 'solve 2x + 5 = 15', "
    \o "'calculate 25 * 4', or 'what is 20% of 80?'"
MathTrouble ==
    "I'm having trouble with this math problem. Could you rephrase it? "
    \o "For example: 'solve x + 5 = 10' or 'calculate 15 * 8'"

\* mutant of _handle_arithmetic: an expression that fails to evaluate is
\* answered with the result text
_handle_arithmetic_result_on_error(expression) ==
    LET expr == keep_chars(replace(replace(expression, "x", "*"), "^", "**"),
                           "0123456789+-*/.() ")
        result == eval(expr)
    IN  IF expr # ""
        THEN [Answer(ArithmeticResult, result.value, expression)
                 EXCEPT !.caught = result.error]
        ELSE Request(ClearerExpression, "")

\* MathHandler._handle_arithmetic (the replacement of the division sign, which
\* no message of the model holds, is left out)
_handle_arithmetic(expression) ==
    LET expr == keep_chars(replace(replace(expression, "x", "*"), "^", "**"),
                           "0123456789+-*/.() ")
        result == eval(expr)
    IN  IF expr # ""
        THEN IF result.ok
             THEN Answer(ArithmeticResult, result.value, expression)
             ELSE Request(CouldNotParse, result.error)
        ELSE Request(ClearerExpression, "")

\* `s or '1'`
or_1(s) == IF s = "" THEN "1" ELSE s

\* x = (rhs - const) / coeff on the converted texts; the first exception of
\* the conversions or of the division is the one raised
solve_linear(coeff, const, rhs) ==
    IF ~coeff.ok THEN Raised(coeff.error)
    ELSE IF ~const.ok THEN Raised(const.error)
    ELSE IF ~rhs.ok THEN Raised(rhs.error)
    ELSE IF coeff.value.num = 0 THEN Raised("ZeroDivisionError")
    ELSE Value(Over(Minus(rhs.value, const.value), coeff.value))

\* -float(s)
minus_float(s) ==
    LET f == float(s)
    IN  IF f.ok THEN Value(Minus(Number(0, 1), f.value)) ELSE f

\* MathHandler._handle_equation
_handle_equation(equation) ==
    LET sides == split(equation, "=")
        left == strip(sides[1])
        right == strip(sides[2])
        plus == split(left, "+")
        minus == split(left, "-")
        x == IF Len(sides) # 2 THEN Raised("ValueError")
             ELSE IF Contains(left, "+")
             THEN IF Contains(plus[1], "x")
                  THEN solve_linear(float(or_1(strip(replace(plus[1], "x", "")))),
                                    float(strip(plus[2])), float(right))
                  ELSE solve_linear(float(or_1(strip(replace(plus[2], "x", "")))),
                                    float(strip(plus[1])), float(right))
             ELSE IF Contains(left, "-")
             THEN IF Contains(minus[1], "x")
                  THEN solve_linear(float(or_1(strip(replace(minus[1], "x", "")))),
                                    minus_float(strip(minus[2])), float(right))
                  ELSE solve_linear(float(or_1(strip(replace(minus[2], "x", "")))),
                                    minus_float(strip(minus[1])), float(right))
             ELSE solve_linear(float(or_1(strip(replace(left, "x", "")))),
                               Value(Number(0, 1)), float(right))
    IN  IF ~Contains(equation, "=") THEN Request(RephraseEquation, "")
        ELSE IF x.ok THEN Answer(EquationSolution, x.value, equation)
        ELSE Request(RephraseEquation, x.error)

\* re.findall(r'\d+(?:\.\d+)?', s) for texts without decimal points: the
\* runs of digits
RECURSIVE findall_numbers(_)
findall_numbers(s) ==
    IF s = "" THEN <<>>
    ELSE IF isdigit(Head(s))
    THEN <<digit_prefix(s)>> \o findall_numbers(After(s, Len(digit_prefix(s))))
    ELSE findall_numbers(Tail(s))

\* MathHandler._handle_percentage
_handle_percentage(problem) ==
    LET numbers == findall_numbers(problem)
        percent == float(numbers[1]).value
        value == float(numbers[2]).value
        result == Times(Over(percent, Number(100, 1)), value)
    IN  IF Len(numbers) >= 2
        THEN IF Contains(problem, "of")
             THEN Answer(PercentageResult, result, "")
             ELSE Request(PercentageFormats, "")
        ELSE Request(PercentageTry, "")

\* MathHandler._handle_word_problem
_handle_word_problem(problem) ==
    LET lower_problem == lower(problem)
    IN  IF Contains(lower_problem, "age") \/ Contains(lower_problem, "years old")
        THEN Request(AgeProblems, "")
        ELSE IF \/ Contains(lower_problem, "cost")
                \/ Contains(lower_problem, "price")
                \/ Contains(problem, "$")
        THEN Request(MoneyProblems, "")
        ELSE Request(WordProblems, "")

\* MathHandler.solve_math: an exception leaving a handler is caught by the
\* `except Exception` and answered with the rephrase text
solve_math(question) ==
    LET clean_q == strip(replace(replace(replace(lower(question), "solve", ""),
                                         "calculate", ""), "what is", ""))
        answer ==
            IF Contains(clean_q, "%") \/ Contains(clean_q, "percent")
            THEN _handle_percentage(clean_q)
            ELSE IF ~Contains(clean_q, "=") /\ ~AnyIn({"x", "y", "z"}, clean_q)
            THEN _handle_arithmetic(clean_q)
            ELSE IF Contains(clean_q, "=") /\ Contains(clean_q, "x")
            THEN _handle_equation(clean_q)
            ELSE IF AnyIn({"age", "years", "cost", "price", "distance", "speed",
                           "time"}, clean_q)
            THEN _handle_word_problem(question)
            ELSE Request(MathHelp, "")
    IN  IF answer.raised # "" THEN Request(MathTrouble, answer.raised) ELSE answer

\* ---------------------------------------------------------- DecisionHandler

\* user_profile.get(...).get(key, 0.5) of a decision_making trait (in 1/Scale
\* units): the stored value, 0.5 for a profile without it
trait(user_profile, key) ==
    IF key \in DOMAIN user_profile THEN user_profile[key] ELSE Scale \div 2

\* user_profile.get("memory_facts", {}).get("personal", {}).get("name", "")
name_of(user_profile) ==
    IF "memory_facts" \in DOMAIN user_profile
       /\ \E f \in user_profile.memory_facts.personal : f[1] = "name"
    THEN (CHOOSE f \in user_profile.memory_facts.personal : f[1] = "name")[2]
    ELSE ""

\* the framework templates of help_decide (the pictograph that opens each
\* heading is left out)
IntuitiveApproach ==
    "**Intuitive Approach** (based on your decision-making style):\n"
    \o "1. **Gut feeling**: What does your instinct tell you?\n"
    \o "2. **Excitement test**: Which option makes you feel more energized?\n"
    \o "3. **Future self**: Imagine yourself in 5 years - which choice would you be proud of?\n"
    \o "4. **Values alignment**: Which option aligns better with what matters most to you?\n\n"

AnalyticalApproach ==
    "**Analytical Approach** (based on your decision-making style):\n"
    \o "1. **Pros and cons**: List the advantages and disadvantages of each option\n"
    \o "2. **Worst-case scenario**: What's the worst that could happen with each choice?\n"
    \o "3. **Opportunity cost**: What are you giving up with each option?\n"
    \o "4. **Data check**: What evidence supports each choice?\n\n"

BalancedApproach ==
    "**Balanced Approach**:\n"
    \o "1. **Head vs Heart**: What do logic and emotions each tell you?\n"
    \o "2. **Short vs Long-term**: Consider both immediate and future impacts\n"
    \o "3. **Advice test**: What would you tell a friend in this situation?\n\n"

\* the risk paragraphs of help_decide (without the pictographs)
CautiousRisk ==
    "**Risk Consideration**: Given your careful nature, I'd suggest:\n"
    \o "- Choose the option with more predictable outcomes\n"
    \o "- Consider what safeguards you can put in place\n"
    \o "- Remember: sometimes the 'safer' choice has hidden risks too"

BoldRisk ==
    "**Risk Consideration**: You're comfortable with bold moves, so:\n"
    \o "- Don't let fear of failure hold you back\n"
    \o "- The bigger risk might be playing it too safe\n"
    \o "- Trust your ability to handle whatever comes"

BalancedRisk ==
    "**Risk Consideration**: Balance safety with opportunity:\n"
    \o "- Consider moderate risks that offer reasonable rewards\n"
    \o "- You don't need to choose the extreme option\n"
    \o "- Sometimes the middle path is the wisest"

\* mutant of framework: the thresholds belong to the intuitive and the
\* analytical template
framework_inclusive(analytical) ==
    IF analytical * 10 <= 4 * Scale THEN IntuitiveApproach
    ELSE IF analytical * 10 >= 6 * Scale THEN AnalyticalApproach
    ELSE BalancedApproach

\* `if analytical < 0.4 ... elif analytical > 0.6 ... else`
framework(analytical) ==
    IF analytical * 10 < 4 * Scale THEN IntuitiveApproach
    ELSE IF analytical * 10 > 6 * Scale THEN AnalyticalApproach
    ELSE BalancedApproach

\* `if risk_tolerance < 0.3 ... elif risk_tolerance > 0.7 ... else`
risk_consideration(risk_tolerance) ==
    IF risk_tolerance * 10 < 3 * Scale THEN CautiousRisk
    ELSE IF risk_tolerance * 10 > 7 * Scale THEN BoldRisk
    ELSE BalancedRisk

\* DecisionHandler.help_decide
help_decide(message, user_profile) ==
    LET risk_tolerance == trait(user_profile, "risk_tolerance")
        analytical == trait(user_profile, "analytical_vs_intuitive")
        name == name_of(user_profile)
        greeting == IF name # "" THEN name \o ", l" ELSE "L"
        lower_msg == lower(message)
        decision_part == strip(split(lower_msg, "should i")[2])
    IN  greeting \o "et me help you think through this decision.\n\n"
        \o (IF Contains(lower_msg, "should i")
            THEN "**You're considering: " \o decision_part \o "**\n\n"
            ELSE "")
        \o framework(analytical)
        \o risk_consideration(risk_tolerance)
        \o "\n\n**What specific aspect of this decision is most challenging for you?**"

\* ------------------------------------- simple_main: the emotion classifier

\* the word lists of analyze_emotion_and_context
joy_words ==
    {"happy", "joy", "great", "awesome", "wonderful", "amazing", "excited",
     "fantastic", "excellent", "brilliant", "love", "perfect", "thrilled",
     "delighted", "cheerful", "optimistic", "pleased", "glad", "ecstatic",
     "euphoric", "elated", "blissful", "overjoyed"}
sad_words ==
    {"sad", "depressed", "down", "upset", "crying", "tears", "miserable",
     "heartbroken", "disappointed", "gloomy", "melancholy", "sorrow", "grief",
     "despair", "blue", "lonely", "devastated", "crushed"}
anger_words ==
    {"angry", "mad", "furious", "annoyed", "frustrated", "irritated", "rage",
     "outraged", "livid", "pissed", "infuriated", "agitated", "hostile",
     "resentful", "bitter"}
fear_words ==
    {"scared", "afraid", "worried", "anxious", "nervous", "panic", "terrified",
     "frightened", "stress", "stressed", "overwhelmed", "tense", "paranoid",
     "apprehensive", "uneasy"}
surprise_words ==
    {"surprised", "shocked", "amazed", "astonished", "stunned", "wow",
     "incredible", "unbelievable", "mind-blown"}
positive_indicators == {"good", "nice", "okay", "fine", "well", "thanks", "please"}
negative_indicators ==
    {"bad", "not", "no", "never", "hate", "problem", "issue", "wrong"}

\* sum(weight if word in text else 0 for word in words)
score_of(words, weight, text) ==
    weight * Cardinality({w \in words : Contains(text, w)})

\* the keys of the dict `scores` in the order of their insertion
ScoreKeys == <<"joy", "sadness", "anger", "fear", "surprise">>

\* max(scores.keys(), key=lambda k: scores[k]): the first key, in the order
\* of the dict, whose score no other key exceeds
max_key(scores) ==
    LET i == CHOOSE i \in 1..Len(ScoreKeys) :
                 /\ \A j \in 1..Len(ScoreKeys) : scores[ScoreKeys[j]] <= scores[ScoreKeys[i]]
                 /\ \A j \in 1..(i - 1) : scores[ScoreKeys[j]] < scores[ScoreKeys[i]]
    IN  ScoreKeys[i]

\* analyze_emotion_and_context: sentiment in tenths, confidence in hundredths
analyze_emotion_and_context(text) ==
    LET text_lower == lower(text)
        joy_score == score_of(joy_words, 2, text_lower)
        sad_score == score_of(sad_words, 2, text_lower)
        anger_score == score_of(anger_words, 2, text_lower)
        fear_score == score_of(fear_words, 2, text_lower)
        surprise_score == score_of(surprise_words, 1, text_lower)
        scores == [k \in {"joy", "sadness", "anger", "fear", "surprise"} |->
                     CASE k = "joy" -> joy_score
                       [] k = "sadness" -> sad_score
                       [] k = "anger" -> anger_score
                       [] k = "fear" -> fear_score
                       [] k = "surprise" -> surprise_score]
        max_emotion == IF \E k \in DOMAIN scores : scores[k] > 0
                       THEN max_key(scores) ELSE "neutral"
        max_score == IF max_emotion \in DOMAIN scores THEN scores[max_emotion] ELSE 0
        positive_score == joy_score + surprise_score
        negative_score == sad_score + anger_score + fear_score
        pos_count == score_of(positive_indicators, 1, text_lower)
        neg_count == score_of(negative_indicators, 1, text_lower)
    IN  [emotion |-> max_emotion,
         sentiment |->
             IF positive_score > negative_score THEN Min(8, positive_score)
             ELSE IF negative_score > positive_score THEN -Min(8, negative_score)
             ELSE IF pos_count > neg_count THEN 3
             ELSE IF neg_count > pos_count THEN -3
             ELSE 0,
         confidence |-> IF max_score > 0 THEN Min(95, max_score * 20) ELSE 50,
         emotion_scores |-> scores]

\* `"answer is" in response.lower() or "solution:" in response.lower()` for a
\* response of solve_math: the lines after the first hold the fields and fixed
\* words without either phrase
is_solution(response) ==
    LET whole == lower(response.text \o response.shown)
    IN  Contains(whole, "answer is") \/ Contains(whole, "solution:")

\* generate_ultimate_response after the profile update: the function whose
\* output it returns.  The output of MathHandler.solve_math is returned only
\* if it contains "answer is" or "solution:"; otherwise, and for the topics
\* without a branch, _generate_personalized_response answers.
generate_ultimate_response(message) ==
    LET topic == detect_topic(message)
    IN  IF topic = "math"
        THEN IF is_solution(solve_math(Wording(message)))
             THEN "MathHandler.solve_math"
             ELSE "_generate_personalized_response"
        ELSE IF topic = "emotional" THEN "EmotionalHandler.provide_support"
        ELSE IF topic = "decision" THEN "DecisionHandler.help_decide"
        ELSE IF topic = "knowledge" THEN "KnowledgeHandler.provide_knowledge"
        ELSE IF topic = "random" THEN "RandomHandler.provide_fun_content"
        ELSE "_generate_personalized_response"

\* a chat request the server has not received
NoChat ==
    [state |-> "none", user_id |-> "", message |-> "", overlapped |-> FALSE,
     response |-> "", responder |-> ""]

\* UserMemory() and no chat request yet
InitMemory ==
    /\ disk = <<>>
    /\ chats = [r \in Reqs |-> NoChat]
    /\ committed = [u \in UserIds |-> <<>>]

\* no handler function has been called
NoCall == [op |-> "none", input |-> "", output |-> "", returned |-> FALSE]

\* GroqEngine(max_requests_per_minute = max_requests)
Init ==
    /\ called = NoCall
    /\ now = 0
    /\ max_requests \in 0..MaxRequestsBound
    /\ requests = <<>>
    /\ conversation_history = <<>>
    /\ exchanged = [c \in ConversationIds |-> <<>>]
    /\ tasks = [t \in Tasks |-> IdleTask]
    /\ ret = Return("none", "none", FALSE, 0, <<>>, <<>>)
    /\ InitMemory

\* time passes
Tick ==
    /\ now < MaxTime
    /\ now' = now + 1
    /\ UNCHANGED <<engine_vars, memory_vars, called>>

\* RateLimiter.can_make_request called on its own (get_stats, a caller's check)
CanMakeRequestCall ==
    /\ requests' = popleft_old(requests, now)
    /\ ret' = Return("can_make_request", "returned", can_make_request(requests, now),
                     0, <<>>, <<>>)
    /\ UNCHANGED <<now, called, max_requests, conversation_history, exchanged, tasks, memory_vars>>

\* GroqEngine.wait_for_rate_limit called on its own
WaitForRateLimitCall ==
    /\ requests' = popleft_old(requests, now)
    /\ ret' = Return("wait_for_rate_limit", "returned", can_make_request(requests, now),
                     wait_for_rate_limit(requests, now), <<>>, <<>>)
    /\ UNCHANGED <<now, called, max_requests, conversation_history, exchanged, tasks, memory_vars>>

\* GroqEngine.is_available: the provider answers with some content, with empty
\* content, or raises
IsAvailable ==
    /\ IF ~can_make_request(requests, now)
       THEN /\ requests' = popleft_old(requests, now)
            /\ ret' = Return("is_available", "not_called", FALSE, 0, <<>>, <<>>)
       ELSE /\ requests' = add_request(popleft_old(requests, now), now)
            /\ \E answer \in BOOLEAN :
                 ret' = Return("is_available", "called", answer, 0, <<>>, <<>>)
    /\ UNCHANGED <<now, called, max_requests, conversation_history, exchanged, tasks, memory_vars>>

\* GroqEngine.generate_response, one synchronous run; with stream=True it
\* returns the provider's stream, which the caller then iterates
GenerateResponse(message, conversation_id, user_emotion, stream) ==
    /\ CanStart
    /\ IF rate_limit_exceeded(requests, now)
       THEN \* raise Exception("Rate limit exceeded. Try again in ... seconds.")
            /\ requests' = popleft_old(requests, now)
            /\ ret' = Return("generate_response", "rate_limited", FALSE,
                             wait_for_rate_limit(requests, now), <<>>, <<>>)
            /\ UNCHANGED <<conversation_history, exchanged, tasks>>
       ELSE /\ requests' = add_request(popleft_old(requests, now), now)
            /\ \/ \* the provider call raises: return the fallback
                  /\ \E fallback \in _get_fallback_response(message, user_emotion) :
                       ret' = Return("generate_response", "fallback", TRUE, 0,
                                     fallback, <<>>)
                  /\ UNCHANGED <<conversation_history, exchanged, tasks>>
               \/ \* stream=False: a completion
                  /\ ~stream
                  /\ \E content \in Completions :
                       /\ conversation_history' =
                            _update_conversation(conversation_history, conversation_id,
                                                 message, content)
                       /\ exchanged' = Stored(conversation_id, message, content)
                       /\ ret' = Return("generate_response", "completed", TRUE, 0,
                                        content, <<>>)
                  /\ UNCHANGED tasks
               \/ \* stream=True: the provider's stream is returned as it is
                  /\ stream
                  /\ \E t \in Tasks :
                       /\ FreeSlot(t)
                       /\ tasks' = [tasks EXCEPT ![t] =
                            [IdleTask EXCEPT !.pc = "raw", !.message = message,
                                             !.conversation_id = conversation_id]]
                  /\ ret' = Return("generate_response", "stream_returned", TRUE, 0,
                                   <<>>, <<>>)
                  /\ UNCHANGED <<conversation_history, exchanged>>
    /\ UNCHANGED <<now, called, max_requests, memory_vars>>

\* the caller of generate_response(stream=True) iterates the returned stream to
\* its end, or until the provider raises; the chunks go to the caller only
ConsumeRaw(t) ==
    /\ tasks[t].pc = "raw"
    /\ tasks' = [tasks EXCEPT ![t] = IdleTask]
    /\ \/ ret' = Return("raw_stream", "completed", TRUE, 0, <<>>, <<>>)
       \/ ret' = Return("raw_stream", "raised", FALSE, 0, <<>>, <<>>)
    /\ UNCHANGED <<now, called, max_requests, requests, conversation_history, exchanged, memory_vars>>

\* stream_response from the chunk loop on, up to its next yield: the provider
\* delivers a content chunk, ends the stream, or raises
StreamLoop(t, call) ==
    \/ \E token \in Tokens :
         /\ Len(call.full_response) < MaxChunks
         /\ tasks' = [tasks EXCEPT ![t] =
              [call EXCEPT !.pc = "streaming",
                           !.full_response = @ \o <<token>>,
                           !.events = Append(@, TokenEvent(<<token>>, FALSE))]]
         /\ ret' = Return("stream_response", "yielded", TRUE, 0,
                          call.full_response \o <<token>>,
                          Append(call.events, TokenEvent(<<token>>, FALSE)))
         /\ UNCHANGED <<conversation_history, exchanged>>
    \/ /\ conversation_history' =
            _update_conversation(conversation_history, call.conversation_id,
                                 call.message, call.full_response)
       /\ exchanged' = Stored(call.conversation_id, call.message, call.full_response)
       /\ tasks' = [tasks EXCEPT ![t] = IdleTask]
       /\ ret' = Return("stream_response", "completed", TRUE, 0, call.full_response,
                        Append(call.events, TokenEvent(<<>>, TRUE)))
    \/ /\ \E fallback \in _get_fallback_response(call.message, call.user_emotion) :
            ret' = Return("stream_response", "fallback", TRUE, 0, call.full_response,
                          Append(call.events, TokenEvent(fallback, TRUE)))
       /\ tasks' = [tasks EXCEPT ![t] = IdleTask]
       /\ UNCHANGED <<conversation_history, exchanged>>

\* GroqEngine.stream_response, from the call to its first yield
StreamStart(t, message, conversation_id, user_emotion) ==
    /\ FreeSlot(t)
    /\ IF rate_limit_exceeded(requests, now)
       THEN /\ requests' = popleft_old(requests, now)
            /\ ret' = Return("stream_response", "rate_limited", FALSE,
                             wait_for_rate_limit(requests, now), <<>>,
                             <<ErrorEvent(wait_for_rate_limit(requests, now))>>)
            /\ UNCHANGED <<conversation_history, exchanged, tasks>>
       ELSE /\ requests' = add_request(popleft_old(requests, now), now)
            /\ StreamLoop(t, [IdleTask EXCEPT !.message = message,
                                              !.conversation_id = conversation_id,
                                              !.user_emotion = user_emotion])
    /\ UNCHANGED <<now, called, max_requests, memory_vars>>

\* a stream_response call, while the model's bound on exchanges admits one
StreamResponse(t, message, conversation_id, user_emotion) ==
    /\ CanStart
    /\ StreamStart(t, message, conversation_id, user_emotion)

\* stream_response resumed after a token yield (and its asyncio.sleep)
StreamResume(t) ==
    /\ tasks[t].pc = "streaming"
    /\ StreamLoop(t, tasks[t])
    /\ UNCHANGED <<now, called, max_requests, requests, memory_vars>>

\* GroqEngine.clear_conversation
ClearConversation(conversation_id) ==
    /\ conversation_id \in DOMAIN conversation_history
    /\ conversation_history' = clear_conversation(conversation_history, conversation_id)
    /\ exchanged' = [exchanged EXCEPT ![conversation_id] = <<>>]
    /\ UNCHANGED <<now, called, max_requests, requests, tasks, ret, memory_vars>>

Next ==
    \/ Tick
    \/ CanMakeRequestCall
    \/ WaitForRateLimitCall
    \/ IsAvailable
    \/ \E m \in Messages, c \in ConversationIds, e \in UserEmotions, s \in BOOLEAN :
          GenerateResponse(m, c, e, s)
    \/ \E t \in Tasks : ConsumeRaw(t)
    \/ \E t \in Tasks, m \in Messages, c \in ConversationIds, e \in UserEmotions :
          StreamResponse(t, m, c, e)
    \/ \E t \in Tasks : StreamResume(t)
    \/ \E c \in ConversationIds : ClearConversation(c)

Spec == Init /\ [][Next]_vars

\* the consumer of a stream reads it to the end: the event loop resumes every
\* suspended stream_response generator
SpecConsumed == Spec /\ \A t \in Tasks : WF_vars(StreamResume(t))

\* ------------------------------------------------- main.py, POST /api/chat

\* message.content of a completion that carries no text (None): the value
\* is_available tests with bool() next to the empty text
NoContent == "None"

\* the text of a reply of the engine: the tokens of a completion in a row
RECURSIVE ContentText(_)
ContentText(content) ==
    IF content = <<>> THEN "" ELSE Head(content) \o ContentText(Tail(content))

\* the templates _get_fallback_response draws from without a user_emotion
FallbackText(fallback) ==
    IF fallback = <<"generic_1">>
    THEN "I'm here to help! What would you like to talk about?"
    ELSE IF fallback = <<"generic_2">>
    THEN "That's interesting! Tell me more about that."
    ELSE IF fallback = <<"generic_3">>
    THEN "I'd love to hear your thoughts on this. Can you elaborate?"
    ELSE "Thanks for sharing that with me. What else would you like to discuss?"

\* what call_groq returns when generate_response raises
TechnicalDifficulties ==
    "I'm experiencing some technical difficulties. Please try again in a moment."

\* main.analyze_emotion of a text (sentiment and confidence in tenths)
analyze_emotion(text) ==
    LET text_lower == lower(text)
    IN  IF AnyIn({"happy", "joy", "excited", "great", "awesome"}, text_lower)
        THEN [emotion |-> "joy", sentiment |-> 8, confidence |-> 7]
        ELSE IF AnyIn({"sad", "upset", "down", "depressed"}, text_lower)
        THEN [emotion |-> "sadness", sentiment |-> 2, confidence |-> 7]
        ELSE IF AnyIn({"angry", "mad", "furious", "annoyed"}, text_lower)
        THEN [emotion |-> "anger", sentiment |-> 1, confidence |-> 7]
        ELSE IF AnyIn({"worried", "anxious", "stressed", "nervous"}, text_lower)
        THEN [emotion |-> "fear", sentiment |-> 3, confidence |-> 7]
        ELSE [emotion |-> "neutral", sentiment |-> 5, confidence |-> 6]

\* the answer of the endpoint: a ChatResponse record with status 200
\* (the handler starts and ends within one reading of the clock)
ChatResponse(response, emotion_data) ==
    [status_code |-> 200, response |-> response, emotion |-> emotion_data.emotion,
     sentiment |-> emotion_data.sentiment, confidence |-> emotion_data.confidence,
     response_time |-> 0, timestamp |-> now]

\* raise HTTPException(status_code=500, detail=f"Error: {str(e)}"): the
\* server answers with the status and the detail only
HTTPException(status_code, detail) ==
    [status_code |-> status_code, detail |-> detail]

\* the handler's try block on what call_groq returned
chat_answer(ai_response) ==
    IF ai_response = NoContent
    THEN \* analyze_emotion(None): None.lower() raises AttributeError
         HTTPException(500, "Error: 'NoneType' object has no attribute 'lower'")
    ELSE ChatResponse(ai_response, analyze_emotion(ai_response))

\* the endpoint was called with the message and has answered
Answered(message, answer) ==
    [op |-> "chat", input |-> message, output |-> answer, returned |-> TRUE]

\* main.chat, one synchronous run: call_groq (generate_response without
\* user_emotion and without stream), analyze_emotion, ChatResponse
MainChat(message, conversation_id) ==
    /\ CanStart
    /\ IF rate_limit_exceeded(requests, now)
       THEN \* generate_response raises, call_groq returns its fixed text
            /\ requests' = popleft_old(requests, now)
            /\ ret' = Return("generate_response", "rate_limited", FALSE,
                             wait_for_rate_limit(requests, now), <<>>, <<>>)
            /\ called' = Answered(message, chat_answer(TechnicalDifficulties))
            /\ UNCHANGED <<conversation_history, exchanged>>
       ELSE /\ requests' = add_request(popleft_old(requests, now), now)
            /\ \/ \* the provider call raises: generate_response returns a fallback
                  /\ \E fallback \in _get_fallback_response(message, NoEmotion) :
                       /\ ret' = Return("generate_response", "fallback", TRUE, 0,
                                        fallback, <<>>)
                       /\ called' = Answered(message, chat_answer(FallbackText(fallback)))
                  /\ UNCHANGED <<conversation_history, exchanged>>
               \/ \* a completion with a text, or with the empty text
                  \E content \in Completions \cup {<<>>} :
                       /\ conversation_history' =
                            _update_conversation(conversation_history, conversation_id,
                                                 message, content)
                       /\ exchanged' = Stored(conversation_id, message, content)
                       /\ ret' = Return("generate_response", "completed", TRUE, 0,
                                        content, <<>>)
                       /\ called' = Answered(message, chat_answer(ContentText(content)))
               \/ \* a completion whose content is None
                  /\ conversation_history' =
                       _update_conversation(conversation_history, conversation_id,
                                            message, NoContent)
                  /\ exchanged' = Stored(conversation_id, message, NoContent)
                  /\ ret' = Return("generate_response", "completed", TRUE, 0,
                                   NoContent, <<>>)
                  /\ called' = Answered(message, chat_answer(NoContent))
    /\ UNCHANGED <<now, max_requests, tasks, memory_vars>>

\* GroqEngine.get_stats: the dictionary it builds, entry by entry.
\* current_requests is len(requests) as the deque stands; can_make_request()
\* then evicts, wait_for_rate_limit() follows, and `available` is what
\* is_available() returned
get_stats(reqs, t, hist, available) ==
    [rate_limit |-> [max_requests |-> max_requests,
                     current_requests |-> Len(reqs),
                     can_make_request |-> can_make_request(reqs, t),
                     wait_time |-> wait_for_rate_limit(reqs, t)],
     conversations |-> Cardinality(DOMAIN hist),
     available |-> available]

\* what health_check returns for the statistics of the engine
health_report(groq_stats) ==
    [status |-> IF groq_stats.available THEN "healthy" ELSE "unhealthy",
     groq_connected |-> groq_stats.available,
     rate_limit |-> groq_stats.rate_limit,
     conversations |-> groq_stats.conversations,
     timestamp |-> now]

\* GET /api/health: health_check calls get_stats, whose last entry runs
\* is_available (one provider call, with its attempt recorded, if the limiter
\* admits it)
HealthCheck ==
    /\ \E answer \in BOOLEAN :
         LET admitted == can_make_request(requests, now)
             available == admitted /\ answer
         IN  /\ requests' = IF admitted
                            THEN add_request(popleft_old(requests, now), now)
                            ELSE popleft_old(requests, now)
             /\ ret' = Return("is_available",
                              IF admitted THEN "called" ELSE "not_called",
                              available, 0, <<>>, <<>>)
             /\ called' = [op |-> "health_check", input |-> "",
                           output |-> health_report(get_stats(requests, now,
                                          conversation_history, available)),
                           returned |-> TRUE]
    /\ UNCHANGED <<now, max_requests, conversation_history, exchanged, tasks, memory_vars>>

\* the server of main.py under chat requests and health checks, with time
\* passing
NextMain ==
    \/ Tick
    \/ HealthCheck
    \/ \E m \in Messages, c \in ConversationIds : MainChat(m, c)

SpecMain == Init /\ [][NextMain]_vars

\* the server receives POST /api/chat and schedules the handler on the event
\* loop; `overlapped` notes that another request of the same user is pending
Receive(r, user_id, message) ==
    /\ chats[r].state = "none"
    /\ \A q \in Reqs : q < r => chats[q].state # "none"
    /\ chats' = [q \in Reqs |->
         IF q = r
         THEN [state |-> "received", user_id |-> user_id, message |-> message,
               overlapped |-> \E p \in Reqs : /\ chats[p].state = "received"
                                              /\ chats[p].user_id = user_id,
               response |-> "", responder |-> ""]
         ELSE IF chats[q].state = "received" /\ chats[q].user_id = user_id
              THEN [chats[q] EXCEPT !.overlapped = TRUE]
              ELSE chats[q]]
    /\ UNCHANGED <<now, called, engine_vars, disk, committed>>

\* mutant of Dispatched: the dispatcher holds the profile as it was loaded,
\* before the update
Dispatched_before_update(message, user_profile) ==
    [op |-> generate_ultimate_response(message),
     input |-> [message |-> message,
                user_profile |-> load_profile(disk, user_profile.user_id)],
     output |-> "reply", returned |-> TRUE]

\* the dispatch of generate_ultimate_response: the function that answers, the
\* message and the user_profile the dispatcher holds at that point (the
\* dictionary update_from_message returned, which save_profile has stamped)
Dispatched(message, user_profile) ==
    [op |-> generate_ultimate_response(message),
     input |-> [message |-> message, user_profile |-> user_profile],
     output |-> "reply", returned |-> TRUE]

\* the chat handler runs (simple_main.chat, generate_ultimate_response):
\* one synchronous run holding memory.update_from_message, then the dispatch
Chat(r, emotion) ==
    /\ chats[r].state = "received"
    /\ ~raises_KeyError(disk, chats[r].user_id, chats[r].message)
    /\ LET u == chats[r].user_id
           m == chats[r].message
           profile == update_from_message(disk, u, m, emotion)
       IN  /\ disk' = save_profile(disk, u, profile, now)
           /\ committed' = [committed EXCEPT ![u] = Append(@, m)]
           /\ called' = Dispatched(m, [profile EXCEPT !.last_interaction = now])
    /\ chats' = [chats EXCEPT ![r].state = "done", ![r].response = "reply",
                              ![r].responder = called'.op]
    /\ UNCHANGED <<now, engine_vars>>

\* the chat handler runs and save_profile fails to open the file for writing:
\* the exception leaves update_from_message and generate_ultimate_response,
\* chat's `except Exception` prints it and answers with its fixed fallback
\* text; the updated profile was a local of update_from_message
ChatSaveFails(r, emotion) ==
    /\ chats[r].state = "received"
    /\ chats' = [chats EXCEPT ![r].state = "done", ![r].response = "hiccup"]
    /\ UNCHANGED <<now, called, engine_vars, disk, committed>>

\* the chat handler runs and update_from_message raises KeyError on the loaded
\* profile: nothing is saved, chat's `except Exception` answers with its fixed
\* fallback text
ChatUpdateFails(r) ==
    /\ chats[r].state = "received"
    /\ raises_KeyError(disk, chats[r].user_id, chats[r].message)
    /\ chats' = [chats EXCEPT ![r].state = "done", ![r].response = "hiccup"]
    /\ UNCHANGED <<now, called, engine_vars, disk, committed>>

\* profile records as other versions of the program write them: a new
\* profile with a key this version does not know, and new profiles without a
\* key this version reads
RecordsOfOtherVersions(user_id) ==
    LET profile == _create_new_profile(user_id)
    IN  {[k \in DOMAIN profile \cup {"theme"} |->
             IF k = "theme" THEN "dark" ELSE profile[k]],
         [k \in DOMAIN profile \ {"total_messages"} |-> profile[k]],
         [k \in DOMAIN profile \ {"emotion_history"} |-> profile[k]]}

\* the file of a user holds a record written by another version
FileOfOtherVersion(user_id, record) ==
    /\ user_id \notin DOMAIN disk
    /\ disk' = [u \in DOMAIN disk \cup {user_id} |->
                  IF u = user_id THEN record ELSE disk[u]]
    /\ UNCHANGED <<now, called, engine_vars, chats, committed>>

\* get_user_summary (of the fields of this model): the summary of the loaded
\* profile; the profile of an unknown user is a new one, which is not saved
get_user_summary(files, user_id) ==
    LET profile == load_profile(files, user_id)
        personal == profile.memory_facts.personal
    IN  [user_id |-> user_id,
         name |-> IF \E f \in personal : f[1] = "name"
                  THEN (CHOOSE f \in personal : f[1] = "name")[2]
                  ELSE "Unknown",
         total_messages |-> profile.total_messages,
         personality |-> [emoji_usage |-> profile.emoji_usage,
                          humor_preference |-> profile.humor_preference,
                          formality |-> profile.formality,
                          verbosity |-> profile.verbosity],
         baseline_sentiment |-> profile.baseline_sentiment,
         last_interaction |-> profile.last_interaction,
         memory_facts |-> [personal |-> personal,
                           recent_goals |-> LastN(profile.memory_facts.goals, 3)]]

\* mutant of GetUserMemory: the profile loaded for the summary is saved
GetUserMemory_saves_profile(user_id) ==
    /\ called' = [op |-> "get_user_summary", input |-> user_id,
                  output |-> get_user_summary(disk, user_id), returned |-> TRUE]
    /\ disk' = save_profile(disk, user_id, load_profile(disk, user_id), now)
    /\ UNCHANGED <<now, engine_vars, chats, committed>>

\* GET /api/memory/{user_id}: get_user_memory returns get_user_summary
GetUserMemory(user_id) ==
    /\ called' = [op |-> "get_user_summary", input |-> user_id,
                  output |-> get_user_summary(disk, user_id), returned |-> TRUE]
    /\ UNCHANGED <<now, engine_vars, memory_vars>>

\* mutant of ClearUserMemory: the file stays
ClearUserMemory_keeps_file(user_id) ==
    /\ user_id \in DOMAIN disk
    /\ disk' = disk
    /\ committed' = [committed EXCEPT ![user_id] = <<>>]
    /\ UNCHANGED <<now, called, engine_vars, chats>>

\* DELETE /api/memory/{user_id}: clear_user_memory
ClearUserMemory(user_id) ==
    /\ disk' = [u \in DOMAIN disk \ {user_id} |-> disk[u]]
    /\ committed' = [committed EXCEPT ![user_id] = <<>>]
    /\ UNCHANGED <<now, called, engine_vars, chats>>

NextMemory ==
    \/ Tick
    \/ \E r \in Reqs, u \in UserIds, m \in ChatMessages : Receive(r, u, m)
    \/ \E r \in Reqs, e \in Readings : Chat(r, e)
    \/ \E r \in Reqs, e \in Readings : ChatSaveFails(r, e)
    \/ \E u \in UserIds : ClearUserMemory(u)

\* the n-th reply stored in a conversation: n tokens, so that every stored
\* exchange of a conversation differs from the others
Reply(n) == [i \in 1..n |-> "a"]

\* the emotions a caller passes: none, a non-neutral one, "neutral"
PassedEmotions == UserEmotions \cup {"neutral"}

\* an exchange of generate_response: _build_messages assembles the list for
\* the provider (`called` holds it), the provider answers, and
\* _update_conversation stores the exchange
UpdateConversation(conversation_id, user_message, user_emotion) ==
    /\ Len(exchanged[conversation_id]) < MaxStored
    /\ called' = [op |-> "_build_messages",
                  input |-> [message |-> user_message,
                             conversation_id |-> conversation_id,
                             user_emotion |-> user_emotion],
                  output |-> _build_messages(conversation_history, user_message,
                                             conversation_id, user_emotion),
                  returned |-> TRUE]
    /\ LET ai_response == Reply(Len(exchanged[conversation_id]) + 1)
       IN  /\ conversation_history' =
                _update_conversation(conversation_history, conversation_id,
                                     user_message, ai_response)
           /\ exchanged' = Stored(conversation_id, user_message, ai_response)
    /\ UNCHANGED <<now, max_requests, requests, tasks, ret, memory_vars>>

NextHistory ==
    \/ \E c \in ConversationIds, m \in Messages, e \in PassedEmotions :
          UpdateConversation(c, m, e)
    \/ \E c \in ConversationIds : ClearConversation(c)

\* long conversations: the history of each conversation id over many exchanges
SpecHistory == Init /\ [][NextHistory]_vars

\* streams in flight for a conversation id
\* the messages of the streamed requests
StreamedMessages == Messages \cup {"tell me more"}

InFlight(conversation_id) ==
    Cardinality({t \in Tasks : /\ tasks[t].pc = "streaming"
                               /\ tasks[t].conversation_id = conversation_id})

\* a long conversation with streamed responses: exchanges are stored one
\* after the other in the conversation "default", and streams start, overlap
\* and end for either conversation id
NextStreams ==
    \/ \E m \in Messages : UpdateConversation("default", m, NoEmotion)
    \/ \E t \in Tasks, m \in StreamedMessages, c \in ConversationIds :
          /\ Len(exchanged[c]) + InFlight(c) < MaxStored
          /\ StreamStart(t, m, c, NoEmotion)
    \/ \E t \in Tasks : StreamResume(t)

\* GroqEngine(max_requests_per_minute = MaxRequestsBound): two streams may start
InitStreams == Init /\ max_requests = MaxRequestsBound

SpecStreams == InitStreams /\ [][NextStreams]_vars

\* a long run of messages of one user.  The n-th message and its emotion
\* reading follow a pattern (25 messages "m1", then 25 "m2", and so on; every
\* third reading is sad),
\* and are free at every 50th message and every 25th reading.
NthMessages(n) ==
    IF n % 50 = 0 THEN ChatMessages
    ELSE {IF ((n - 1) \div 25) % 2 = 0 THEN "m1" ELSE "m2"}

NthReadings(n) ==
    IF n % 25 = 0 THEN Readings
    ELSE {IF n % 3 = 0 THEN [emotion |-> "sadness", sentiment |-> -2]
                       ELSE [emotion |-> "neutral", sentiment |-> 0]}

\* memory.update_from_message(user_id, message, emotion) runs and returns
UpdateFromMessage(user_id, message, emotion) ==
    /\ \A u \in DOMAIN disk : u = user_id
    /\ disk' = save_profile(disk, user_id,
                            update_from_message(disk, user_id, message, emotion), now)
    /\ committed' = [committed EXCEPT ![user_id] = Append(@, message)]
    /\ UNCHANGED <<now, called, engine_vars, chats>>

NextProfile ==
    \/ \E u \in UserIds :
         LET n == load_profile(disk, u).total_messages + 1
         IN  /\ n <= MaxUpdates
             /\ \E m \in NthMessages(n), e \in NthReadings(n) : UpdateFromMessage(u, m, e)
    \/ \E u \in UserIds : ClearUserMemory(u)

\* messages of several moods: sentiments -0.2, -0.4, 0.0 and 0.2
MoodMessages == {"feeling sad", "sad and lonely", "hello there", "so happy"}

\* chat: emotion_data = analyze_emotion_and_context(request.message), of which
\* the profile keeps the emotion and the sentiment
EmotionData(message) ==
    LET emotion_data == analyze_emotion_and_context(Wording(message))
    IN  [emotion |-> emotion_data.emotion, sentiment |-> emotion_data.sentiment]

\* a user sends some messages of any mood and then one message again and
\* again: the server classifies each and updates the profile
SendMood(user_id, message) ==
    /\ LET n == Len(committed[user_id])
       IN  /\ n < MaxEarlier + MaxRepeats
           /\ n > MaxEarlier => message = committed[user_id][n]
    /\ UpdateFromMessage(user_id, message, EmotionData(message))

NextMood ==
    \E u \in UserIds, m \in MoodMessages : SendMood(u, m)

\* simple_main.py constructs the profile store and no GroqEngine: the engine's
\* state stays as constructed
InitSimpleMain == Init /\ max_requests = MaxRequestsBound

\* the profile store under the chat endpoint
SpecMemory == InitSimpleMain /\ [][NextMemory]_vars

\* the profile store under the three endpoints of simple_main.py that use it:
\* chat, GET /api/memory/{user_id} and DELETE /api/memory/{user_id}
NextReads ==
    \/ \E r \in Reqs, u \in UserIds, m \in ChatMessages : Receive(r, u, m)
    \/ \E r \in Reqs, e \in Readings : Chat(r, e)
    \/ \E u \in UserIds : GetUserMemory(u)
    \/ \E u \in UserIds : ClearUserMemory(u)

SpecReads == InitSimpleMain /\ [][NextReads]_vars

\* an engine and a profile store side by side, each with two keys: a few
\* exchanges of the conversations and chat requests of the users, with
\* conversations cleared and profiles erased
NextKeys ==
    \/ \E c \in ConversationIds, m \in Messages :
          CanStart /\ UpdateConversation(c, m, NoEmotion)
    \/ \E c \in ConversationIds : ClearConversation(c)
    \/ \E r \in Reqs, u \in UserIds, m \in ChatMessages : Receive(r, u, m)
    \/ \E r \in Reqs, e \in Readings : Chat(r, e)
    \/ \E u \in UserIds : ClearUserMemory(u)

SpecKeys == InitSimpleMain /\ [][NextKeys]_vars

\* chat requests that ask for a decision, among other messages, with
\* profiles read and erased in between
NextTraits ==
    \/ \E r \in Reqs, u \in UserIds, m \in {"should i move abroad", "m1", "m2"} :
          Receive(r, u, m)
    \/ \E r \in Reqs, e \in Readings : Chat(r, e)
    \/ \E u \in UserIds : GetUserMemory(u)
    \/ \E u \in UserIds : ClearUserMemory(u)

SpecTraits == InitSimpleMain /\ [][NextTraits]_vars

\* chat requests with messages of every topic
NextTopics ==
    \/ \E r \in Reqs, u \in UserIds, m \in TopicMessages : Receive(r, u, m)
    \/ \E r \in Reqs, e \in Readings : Chat(r, e)

SpecTopics == InitSimpleMain /\ [][NextTopics]_vars

\* the profile of a user over many messages
SpecProfile == InitSimpleMain /\ [][NextProfile]_vars

\* chat requests of users whose files other versions of the program wrote
NextStored ==
    \/ \E u \in UserIds : \E record \in RecordsOfOtherVersions(u) :
           FileOfOtherVersion(u, record)
    \/ \E r \in Reqs, u \in UserIds, m \in ChatMessages : Receive(r, u, m)
    \/ \E r \in Reqs, e \in Readings : Chat(r, e)
    \/ \E r \in Reqs : ChatUpdateFails(r)

SpecStored == InitSimpleMain /\ [][NextStored]_vars

\* the profile of a user who repeats a message
SpecMood == InitSimpleMain /\ [][NextMood]_vars

\* ---------------------------------------------- the handlers, call by call

\* one keyword of each list of detect_topic, in the order of its tests
TopicPhrases == <<"solve", "feel", "decide", "joke", "explain", "python">>

\* the phrases of S after position i, each after a blank
RECURSIVE Phrased(_, _)
Phrased(S, i) ==
    IF i > Len(TopicPhrases) THEN ""
    ELSE (IF i \in S THEN " " \o TopicPhrases[i] ELSE "") \o Phrased(S, i + 1)

\* the phrases of S before position i in the reverse order, each before a blank
RECURSIVE PhrasedBack(_, _)
PhrasedBack(S, i) ==
    IF i < 1 THEN ""
    ELSE (IF i \in S THEN TopicPhrases[i] \o " " ELSE "") \o PhrasedBack(S, i - 1)

\* messages for detect_topic: every combination of the phrases, in both orders,
\* and messages where a keyword occurs inside a word, in capitals or next to an
\* operator
ClassifierMessages ==
    {"hello" \o Phrased(S, 1) : S \in SUBSET (1..Len(TopicPhrases))}
    \cup {PhrasedBack(S, Len(TopicPhrases)) \o "hello" : S \in SUBSET (1..Len(TopicPhrases))}
    \cup {"function", "my address", "WHY", "Tell me a STORY", "well-known fact",
          "What is 20% of 80?", "which one", ""}

\* the linear equation `ax + b = c` or `ax - b = c` as a user writes it
Equation(a, sign, b, c) ==
    ToString(a) \o "x " \o sign \o " " \o ToString(b) \o " = " \o ToString(c)

\* the equations with small coefficients, among them a zero coefficient
Equations ==
    {Equation(a, sign, b, c) :
        a \in -MaxCoefficient..MaxCoefficient, sign \in {"+", "-"},
        b \in 0..MaxCoefficient, c \in -MaxCoefficient..MaxCoefficient}

\* the percentage question `What is N% of M?`
PercentageOf(n, m) == "What is " \o ToString(n) \o "% of " \o ToString(m) \o "?"

Percentages ==
    {PercentageOf(n, m) : n \in {0, 7, 20, 150}, m \in {0, 3, 80, 300}}

\* questions for solve_math: the equations and percentages, the examples of
\* its help texts, malformed expressions, divisions by zero, equations outside
\* the form ax + b = c, word problems
MathQuestions ==
    Equations \cup Percentages
    \cup {"solve 2x + 5 = 15", "2x + 5 = 15", "3x - 7 = 20", "solve x + 5 = 10",
          "calculate 25 * 4", "calculate 15 * 8", "100 / 5", "what is 20% of 80?",
          "Calculate 15% of 200", "what is 20 percent of 80", "50% off",
          "20% 80", "10 / 0", "calculate 10 / 0", "2 +", "2 * * 3", "(2 + 3",
          "add 2 and 3", "2 ^ 3", "0 ^ -1", "7 / 2", "math", "",
          "2x = 8", "x = 4", "5 - 2x = 1", "x^2 = 4", "2x + 3x = 10",
          "2x + 5 = 15 = 3", "x + y = 3", "2x + = 4", "y = 3", "y + 2",
          "1/3x + 2 = 3", "2x + 5 = ten", "what is the price of y",
          "my age is z years", "speed of y"}

\* a word of each word list of analyze_emotion_and_context, two of the
\* surprise list (a surprise word counts 1, the others 2) and an indicator
EmotionPhrases ==
    <<"happy", "sad", "angry", "scared", "wow", "shocked", "great", "not">>

\* the phrases of S from position i on, each after a blank
RECURSIVE Feeling(_, _)
Feeling(S, i) ==
    IF i > Len(EmotionPhrases) THEN ""
    ELSE (IF i \in S THEN " " \o EmotionPhrases[i] ELSE "") \o Feeling(S, i + 1)

\* texts for the classifier: every combination of the phrases, and texts
\* where a word occurs in capitals or inside another word
EmotionTexts ==
    {"today i am" \o Feeling(S, 1) : S \in SUBSET (1..Len(EmotionPhrases))}
    \cup {"I am HAPPY", "i made it", "so stressed", "thanks, all good", "hello"}

\* the calls of the handler functions, each with its input
HandlerCalls ==
    {[op |-> "detect_topic", input |-> m, output |-> "", returned |-> FALSE] :
        m \in ClassifierMessages \cup MathQuestions}
    \cup {[op |-> "solve_math", input |-> q, output |-> "", returned |-> FALSE] :
             q \in MathQuestions}
    \cup {[op |-> "analyze_emotion_and_context", input |-> text, output |-> "",
           returned |-> FALSE] : text \in EmotionTexts}

\* TopicHandler.detect_topic(message) runs and returns
DetectTopic ==
    /\ called.op = "detect_topic"
    /\ ~called.returned
    /\ called' = [called EXCEPT !.output = detect_topic(called.input),
                                !.returned = TRUE]
    /\ UNCHANGED <<now, engine_vars, memory_vars>>

\* MathHandler.solve_math(question) runs and returns
SolveMath ==
    /\ called.op = "solve_math"
    /\ ~called.returned
    /\ called' = [called EXCEPT !.output = solve_math(called.input),
                                !.returned = TRUE]
    /\ UNCHANGED <<now, engine_vars, memory_vars>>

\* analyze_emotion_and_context(text) runs and returns
AnalyzeEmotion ==
    /\ called.op = "analyze_emotion_and_context"
    /\ ~called.returned
    /\ called' = [called EXCEPT !.output = analyze_emotion_and_context(called.input),
                                !.returned = TRUE]
    /\ UNCHANGED <<now, engine_vars, memory_vars>>

NextHandlers ==
    \/ DetectTopic
    \/ SolveMath
    \/ AnalyzeEmotion

\* a handler function is called with one of the inputs
InitHandlers ==
    /\ called \in HandlerCalls
    /\ now = 0
    /\ max_requests = MaxRequestsBound
    /\ requests = <<>>
    /\ conversation_history = <<>>
    /\ exchanged = [c \in ConversationIds |-> <<>>]
    /\ tasks = [t \in Tasks |-> IdleTask]
    /\ ret = Return("none", "none", FALSE, 0, <<>>, <<>>)
    /\ InitMemory

SpecHandlers == InitHandlers /\ [][NextHandlers]_vars

\* trait values around the thresholds of help_decide, the ends of the range
\* and the default
TraitValues ==
    {0, Scale \div 2, Scale}
    \cup {(k * Scale) \div 10 + d : k \in {3, 4, 6, 7}, d \in {-1, 0, 1}}

\* profiles for help_decide: every pair of trait values, with and without a
\* name, and profiles of versions that store no trait or no facts
DecisionProfiles ==
    LET profile == _create_new_profile("u1")
    IN  {[profile EXCEPT !.risk_tolerance = r, !.analytical_vs_intuitive = a,
                         !.memory_facts.personal = personal] :
            r \in TraitValues, a \in TraitValues,
            personal \in {{}, {<<"name", "Sam">>}}}
        \cup {[k \in DOMAIN profile \ {"risk_tolerance", "analytical_vs_intuitive"} |->
                 profile[k]],
              [k \in DOMAIN profile \ {"analytical_vs_intuitive", "memory_facts"} |->
                 profile[k]]}

\* messages for help_decide: with and without "should i", one that quotes the
\* headings of the templates
DecisionMessages ==
    {"Should I quit my job?", "help me decide", "should i",
     "SHOULD I take the Analytical Approach** or the Risk Consideration**: "}

DecisionCalls ==
    {[op |-> "help_decide", input |-> [message |-> m, user_profile |-> p],
      output |-> "", returned |-> FALSE] :
        m \in DecisionMessages, p \in DecisionProfiles}

\* DecisionHandler.help_decide(message, user_profile) runs and returns
HelpDecide ==
    /\ called.op = "help_decide"
    /\ ~called.returned
    /\ called' = [called EXCEPT
                    !.output = help_decide(called.input.message,
                                           called.input.user_profile),
                    !.returned = TRUE]
    /\ UNCHANGED <<now, engine_vars, memory_vars>>

NextDecisions == HelpDecide

\* help_decide is called with one of the inputs
InitDecisions ==
    /\ called \in DecisionCalls
    /\ now = 0
    /\ max_requests = MaxRequestsBound
    /\ requests = <<>>
    /\ conversation_history = <<>>
    /\ exchanged = [c \in ConversationIds |-> <<>>]
    /\ tasks = [t \in Tasks |-> IdleTask]
    /\ ret = Return("none", "none", FALSE, 0, <<>>, <<>>)
    /\ InitMemory

SpecDecisions == InitDecisions /\ [][NextDecisions]_vars

\* ------------------------------------------------------------------ claims

\* the recorded attempts whose timestamps lie within the last time_window
InWindow(reqs, t) == SelectSeq(reqs, LAMBDA x : x > t - time_window)

\* a conversation's history, empty when the id is unknown
HistoryOf(hist, c) == IF c \in DOMAIN hist THEN hist[c] ELSE <<>>

\* a history with one more exchange for conversation c, the others untouched
WithExchange(hist, c, m, a) ==
    [k \in DOMAIN hist \cup {c} |->
        IF k = c
        THEN LastN(Append(HistoryOf(hist, c), [user |-> m, assistant |-> a]),
                   HistoryLimit)
        ELSE hist[k]]

\* the concatenation of the fragments of the token events that are not final
RECURSIVE Fragments(_)
Fragments(events) ==
    IF events = <<>> THEN <<>>
    ELSE (IF Head(events).key = "token" /\ ~Head(events).done
          THEN Head(events).token ELSE <<>>) \o Fragments(Tail(events))

\* every fallback template of the engine
FallbackTemplates ==
    UNION {_get_fallback_response(m, e) :
             m \in Messages,
             e \in {NoEmotion, "sadness", "joy", "anger", "fear", "neutral"}}

\* C1: after any sequence of generate_response, stream_response and
\* is_available calls, with time advancing between them, the recorded attempts
\* within the last time_window never number more than max_requests, for every
\* max_requests >= 0.
C1_WindowNeverOverQuota == Len(InWindow(requests, now)) <= max_requests

\* C2: a limiter check (can_make_request, wait_for_rate_limit) never records an
\* attempt; whatever it returns, its only effect on the request sequence is to
\* remove the entries at least time_window old, and every check removes them.
C2_CheckOnlyEvicts ==
    [][(CanMakeRequestCall \/ WaitForRateLimitCall)
         => requests' = InWindow(requests, now)]_vars

\* C2 witness: a check has returned false at a time when an earlier attempt
\* had aged out, and the sequence holds no more than the attempts in the window.
C2_Witness ==
    /\ ret.op \in {"can_make_request", "wait_for_rate_limit"}
    /\ ~ret.ok
    /\ now >= time_window
    /\ max_requests >= 1
    /\ Len(requests) = max_requests
    /\ requests = InWindow(requests, now)

\* C3: when the limiter has no free slot, generate_response fails fast: it
\* signals a rate-limit error carrying the computed wait time, calls no
\* provider, records no attempt and leaves every conversation history (and
\* every stream in flight) as it was.
C3_FailFastWhenNoSlot ==
    [][\A m \in Messages, c \in ConversationIds, e \in UserEmotions, s \in BOOLEAN :
         (GenerateResponse(m, c, e, s) /\ ~can_make_request(requests, now))
           => /\ ret'.op = "generate_response"
              /\ ret'.outcome = "rate_limited"
              /\ ret'.wait = wait_for_rate_limit(requests, now)
              /\ ~ret'.called_provider
              /\ requests' = InWindow(requests, now)
              /\ conversation_history' = conversation_history
              /\ tasks' = tasks]_vars

\* C4: a provider failure during generate_response (of a call admitted on a
\* free slot) does not raise: the call returns a non-empty reply taken from the
\* fallback templates, and the history of that conversation id gains the user
\* message with that reply.
C4_FallbackUpdatesHistory ==
    [][\A m \in Messages, c \in ConversationIds, e \in UserEmotions, s \in BOOLEAN :
         (GenerateResponse(m, c, e, s) /\ can_make_request(requests, now)
            /\ ret'.outcome = "fallback")
           => /\ ret'.reply # <<>>
              /\ ret'.reply \in FallbackTemplates
              /\ conversation_history' =
                   WithExchange(conversation_history, c, m, ret'.reply)]_vars

\* C5: with requests overlapping on the one shared limiter, check and record
\* of each request are atomic, so under every interleaving the attempts
\* recorded within a window never number more than max_requests.
C5_NoOverrunUnderInterleaving ==
    (\E t \in Tasks : tasks[t].pc # "idle")
      => Len(InWindow(requests, now)) <= max_requests

\* C7: when more attempts than max_requests are made within one window, the
\* can_make_request call of the first attempt beyond the quota returns false;
\* while it is false wait_for_rate_limit returns a strictly positive value,
\* and that value strictly decreases as time advances.
C7_WaitPositiveAndDecreasing ==
    [][/\ (CanMakeRequestCall /\ Len(InWindow(requests, now)) >= max_requests)
            => ~ret'.ok
       /\ (WaitForRateLimitCall /\ ~ret'.ok) => ret'.wait > 0
       /\ (Tick /\ ~can_make_request(requests, now) /\ ~can_make_request(requests, now'))
            => wait_for_rate_limit(requests, now') < wait_for_rate_limit(requests, now)
      ]_vars

\* C8: wait_for_rate_limit returns zero exactly when a slot is free, otherwise
\* the time until the oldest recorded attempt leaves the window; and when it
\* returns w at time t, can_make_request returns true at time t + w if no
\* attempt is recorded in between.
C8_WaitExactAndSufficient ==
    [][WaitForRateLimitCall
         => /\ (ret'.wait = 0) <=> (Len(InWindow(requests, now)) < max_requests)
            /\ ret'.wait > 0
                 => ret'.wait = (Head(InWindow(requests, now)) + time_window) - now
            /\ can_make_request(requests', now + ret'.wait)]_vars

\* C9: when a streamed response completes, the exchange (user message,
\* concatenation of the emitted fragments) is appended exactly once to that
\* conversation's history, whether the stream was requested through
\* stream_response or through generate_response with stream=True.
C9_StreamCompletionUpdatesHistory ==
    [][\A t \in Tasks :
         /\ \A m \in Messages, c \in ConversationIds, e \in UserEmotions :
              (StreamResponse(t, m, c, e) /\ ret'.outcome = "completed")
                => conversation_history' =
                     WithExchange(conversation_history, c, m, Fragments(ret'.events))
         /\ (StreamResume(t) /\ ret'.outcome = "completed")
              => conversation_history' =
                   WithExchange(conversation_history, tasks[t].conversation_id,
                                tasks[t].message, Fragments(ret'.events))
         /\ (ConsumeRaw(t) /\ ret'.outcome = "completed")
              => LET c == tasks[t].conversation_id
                     before == HistoryOf(conversation_history, c)
                     after == HistoryOf(conversation_history', c)
                 IN  /\ Len(after) = Len(before) + 1
                     /\ SubSeq(after, 1, Len(before)) = before
                     /\ after[Len(after)].user = tasks[t].message
      ]_vars

\* C10: when stream_response rejects a call for the rate limit, it yields
\* exactly one event, a terminal error event carrying the wait time, and no
\* text fragment; it records no attempt, calls no provider and leaves the
\* conversation histories as they were.
C10_StreamRejection ==
    [][\A t \in Tasks, m \in Messages, c \in ConversationIds, e \in UserEmotions :
         (StreamResponse(t, m, c, e) /\ ret'.outcome = "rate_limited")
           => /\ Len(ret'.events) = 1
              /\ ret'.events[1].key = "error"
              /\ ret'.events[1].done
              /\ ret'.events[1].token = <<>>
              /\ ret'.events[1].wait
                   = (Head(InWindow(requests, now)) + time_window) - now
              /\ ret'.events[1].wait > 0
              /\ ~ret'.called_provider
              /\ requests' = InWindow(requests, now)
              /\ conversation_history' = conversation_history
              /\ tasks' = tasks]_vars

\* C10 witness: a stream was rejected while another stream was in flight
C10_Witness ==
    /\ ret.op = "stream_response"
    /\ ret.outcome = "rate_limited"
    /\ ret.wait > 0
    /\ Len(ret.events) = 1
    /\ \E t \in Tasks : tasks[t].pc = "streaming"

\* the messages of a profile's conversation_history, in order
MessagesOf(profile) ==
    [i \in 1..Len(profile.conversation_history) |-> profile.conversation_history[i].message]

\* C6: profile updates are serialized per user id: when update_from_message
\* calls for the same user overlap, none is lost; the persisted total_messages
\* counts every handled message and conversation_history holds them all
\* (the last 100), in the order handled.
C6_NoLostUpdate ==
    \A u \in UserIds :
       /\ u \in DOMAIN disk <=> committed[u] # <<>>
       /\ u \in DOMAIN disk =>
            /\ disk[u].total_messages = Len(committed[u])
            /\ MessagesOf(disk[u]) = LastN(committed[u], ConversationCap)

\* C6 witness: two requests of one user were pending together, both have been
\* handled, and the persisted profile counts two messages and holds both.
C6_Witness ==
    \E r1, r2 \in Reqs :
       /\ r1 # r2
       /\ chats[r1].state = "done" /\ chats[r2].state = "done"
       /\ chats[r1].response = "reply" /\ chats[r2].response = "reply"
       /\ chats[r1].overlapped /\ chats[r2].overlapped
       /\ chats[r1].user_id = chats[r2].user_id
       /\ chats[r1].message # chats[r2].message
       /\ chats[r1].user_id \in DOMAIN disk
       /\ disk[chats[r1].user_id].total_messages = 2
       /\ Len(disk[chats[r1].user_id].conversation_history) = 2

\* the events before the last are not marked done, the last one is
DoneOnlyLast(events) ==
    /\ events # <<>>
    /\ events[Len(events)].done
    /\ \A i \in 1..(Len(events) - 1) : ~events[i].done

\* no event is marked done
NoneDone(events) == \A i \in 1..Len(events) : ~events[i].done

\* C11: every run of stream_response consumed to its end emits exactly one
\* event marked done, and it is the last one, whether the run succeeds, is
\* rejected for the rate limit, or the provider fails before or in the middle
\* of the stream; a stream being read has emitted no done event yet and
\* eventually ends, so a consumer reading until the done marker terminates.
C11_ExactlyOneDoneLast ==
    /\ [](/\ \A t \in Tasks : tasks[t].pc = "streaming" => NoneDone(tasks[t].events)
          /\ (ret.op = "stream_response" /\ ret.outcome = "yielded")
               => NoneDone(ret.events)
          /\ (ret.op = "stream_response" /\ ret.outcome # "yielded")
               => DoneOnlyLast(ret.events))
    /\ \A t \in Tasks : (tasks[t].pc = "streaming") ~> (tasks[t].pc = "idle")

\* C11 witness: the provider failed in the middle of a stream, after a fragment
C11_Witness ==
    /\ ret.op = "stream_response"
    /\ ret.outcome = "fallback"
    /\ Len(ret.events) >= 2
    /\ ~ret.events[1].done
    /\ ret.events[Len(ret.events)].done

\* C12: after any number of exchanges, the history of each conversation id
\* holds at most 20 entries, and they are exactly the most recent min(n, 20)
\* stored exchanges, in the order they were stored (the oldest evicted first).
C12_HistoryIsLast20 ==
    \A c \in ConversationIds :
       /\ Len(HistoryOf(conversation_history, c)) <= HistoryLimit
       /\ HistoryOf(conversation_history, c) = LastN(exchanged[c], HistoryLimit)

\* C12 witness: more than 20 exchanges were stored in a conversation, whose
\* history holds 20, starting at the 20th from the end
C12_Witness ==
    \E c \in ConversationIds :
       /\ Len(exchanged[c]) > HistoryLimit
       /\ c \in DOMAIN conversation_history
       /\ Len(conversation_history[c]) = HistoryLimit
       /\ conversation_history[c][1] = exchanged[c][Len(exchanged[c]) - HistoryLimit + 1]
       /\ conversation_history[c][1] # exchanged[c][1]

\* C13: after any sequence of update_from_message calls for a user, the
\* profile's conversation_history holds exactly the most recent min(n, 100)
\* messages in arrival order, never more than 100 entries, and emotion_history
\* never holds more than 50 entries.
C13_HistoriesCapped ==
    \A u \in DOMAIN disk :
       /\ Len(disk[u].conversation_history) <= ConversationCap
       /\ MessagesOf(disk[u]) = LastN(committed[u], ConversationCap)
       /\ Len(disk[u].emotion_history) <= EmotionCap

\* C13 witness: a user has sent more than 100 messages; the profile holds 100
\* of them, the oldest dropped, and 50 emotion entries
C13_Witness ==
    \E u \in DOMAIN disk :
       /\ Len(committed[u]) > ConversationCap
       /\ disk[u].total_messages > ConversationCap
       /\ Len(disk[u].conversation_history) = ConversationCap
       /\ Len(disk[u].emotion_history) = EmotionCap
       /\ MessagesOf(disk[u]) # SubSeq(committed[u], 1, ConversationCap)

\* the sum of the sentiments of entries from..to of an emotion history
RECURSIVE SentimentsBetween(_, _, _)
SentimentsBetween(history, from, to) ==
    IF from > to THEN 0
    ELSE history[to].sentiment + SentimentsBetween(history, from, to - 1)

\* C14: in every profile reachable from a default profile by updates,
\* baseline_sentiment is the arithmetic mean of the sentiments of the last
\* min(20, n) entries of the retained emotion_history, and the default 0.0 while
\* that history is empty (fractions compared by cross-multiplication).
C14_BaselineIsWindowMean ==
    \A u \in DOMAIN disk :
       LET history == disk[u].emotion_history
           n == Len(history)
           k == IF n < BaselineWindow THEN n ELSE BaselineWindow
           baseline == disk[u].baseline_sentiment
       IN  /\ baseline.n > 0
           /\ IF n = 0
              THEN baseline.sum = 0
              ELSE baseline.sum * k
                     = SentimentsBetween(history, n - k + 1, n) * baseline.n

\* C14 witness: more than 20 readings are retained, and the baseline is the
\* mean of the last 20, which is not the mean of all the retained ones
C14_Witness ==
    \E u \in DOMAIN disk :
       LET history == disk[u].emotion_history
           n == Len(history)
           baseline == disk[u].baseline_sentiment
       IN  /\ n > BaselineWindow
           /\ baseline.sum # 0
           /\ baseline.sum * BaselineWindow
                = SentimentsBetween(history, n - BaselineWindow + 1, n) * baseline.n
           /\ baseline.sum * n # SentimentsBetween(history, 1, n) * baseline.n

\* the profile fields documented as ranging over 0.0 .. 1.0
UnitFields(profile) ==
    {profile.formality, profile.verbosity, profile.emoji_usage,
     profile.humor_preference, profile.question_frequency,
     profile.risk_tolerance, profile.analytical_vs_intuitive}

\* C15: for every user, after any sequence of updates, each profile field
\* bounded by [0, 1] (formality, verbosity, emoji_usage, humor_preference,
\* question_frequency, risk_tolerance, analytical_vs_intuitive) is within [0, 1].
C15_TraitsWithinUnit ==
    \A u \in DOMAIN disk : \A x \in UnitFields(disk[u]) : 0 <= x /\ x <= Scale

\* C15 witness: after runs of short casual messages and of long formal ones,
\* formality and verbosity both stand at 1.0, where further long formal
\* messages leave them
C15_Witness ==
    \E u \in DOMAIN disk :
       /\ disk[u].formality = Scale
       /\ disk[u].verbosity = Scale
       /\ disk[u].total_messages >= 50
       /\ disk[u].emoji_usage > 0

\* C16: erasing a user's profile and then loading it returns a freshly
\* defaulted profile, whatever updates preceded: total_messages 0, both
\* histories and the memory facts empty, every trait at its default, nothing
\* of the erased profile carried over.
C16_EraseThenLoadIsFresh ==
    [][\A u \in UserIds :
         ClearUserMemory(u)
           => LET loaded == load_profile(disk', u)
              IN  /\ loaded.user_id = u
                  /\ loaded.total_messages = 0
                  /\ loaded.conversation_history = <<>>
                  /\ loaded.emotion_history = <<>>
                  /\ loaded.baseline_sentiment.sum = 0
                  /\ loaded.memory_facts.personal = {}
                  /\ loaded.memory_facts.goals = <<>>
                  /\ loaded.emoji_usage = 0
                  /\ loaded.question_frequency = 0
                  /\ loaded.average_message_length = 0
                  /\ \A x \in {loaded.formality, loaded.verbosity,
                                loaded.humor_preference, loaded.risk_tolerance,
                                loaded.analytical_vs_intuitive} : x = Scale \div 2
                  /\ loaded.last_interaction = -1]_vars

\* C16 witness: a user whose message was handled, leaving a name and a goal in
\* the profile, has no profile file any more
C16_Witness ==
    \E r \in Reqs :
       /\ chats[r].state = "done"
       /\ chats[r].response = "reply"
       /\ chats[r].message = "m2"
       /\ chats[r].user_id \notin DOMAIN disk
       /\ load_profile(disk, chats[r].user_id).total_messages = 0

C18_FailedSaveKeepsUpdate ==
    [][\A r \in Reqs, e \in Readings :
         ChatSaveFails(r, e)
           => LET u == chats[r].user_id
              IN  /\ load_profile(disk', u).total_messages
                       = load_profile(disk, u).total_messages + 1
                  /\ load_profile(disk', u).conversation_history
                       = update_from_message(disk, u, chats[r].message, e).conversation_history
                  /\ chats'[r].response = "degraded_durability"]_vars

\* C19: an empty message is rejected before any state mutation: a chat
\* request whose message is empty changes neither the user's profile (counter,
\* traits, histories, persisted record) nor the limiter nor any conversation
\* history.
C19_EmptyMessageRejected ==
    [][\A r \in Reqs, e \in Readings :
         (Chat(r, e) /\ chats[r].message = "")
           => /\ disk' = disk
              /\ requests' = requests
              /\ conversation_history' = conversation_history]_vars

\* the handler of each topic that has one
HandlerOf(topic) ==
    CASE topic = "math" -> "MathHandler.solve_math"
      [] topic = "emotional" -> "EmotionalHandler.provide_support"
      [] topic = "decision" -> "DecisionHandler.help_decide"
      [] topic = "knowledge" -> "KnowledgeHandler.provide_knowledge"
      [] topic = "random" -> "RandomHandler.provide_fun_content"
      [] OTHER -> "none"

\* C20: whenever detect_topic classifies a message as math, emotional,
\* decision, knowledge or random, the reply returned for it is the output of
\* that topic's handler; only messages classified general or tech reach the
\* generic response path.
C20_HandlerOutputReturned ==
    [][\A r \in Reqs, e \in Readings :
         Chat(r, e)
           => LET topic == detect_topic(chats[r].message)
              IN  /\ HandlerOf(topic) # "none"
                       => chats'[r].responder = HandlerOf(topic)
                  /\ chats'[r].responder = "_generate_personalized_response"
                       => topic \in {"general", "tech"}]_vars

\* the categories of detect_topic in the order of their priority
Priority == <<"math", "emotional", "decision", "random", "knowledge", "tech">>

\* the message matches the operator or keyword list of the category
Matches(category, message) ==
    CASE category = "math" ->
           AnyIn(MathOperators, message) \/ AnyIn(MathWords, lower(message))
      [] category = "emotional" -> AnyIn(EmotionalWords, lower(message))
      [] category = "decision" -> AnyIn(DecisionWords, lower(message))
      [] category = "random" -> AnyIn(RandomWords, lower(message))
      [] category = "knowledge" -> AnyIn(KnowledgeWords, lower(message))
      [] category = "tech" -> AnyIn(TechWords, lower(message))

\* the positions in Priority of the categories the message matches
Hits(message) == {i \in 1..Len(Priority) : Matches(Priority[i], message)}

\* C21: detect_topic is first-match-wins in the priority math, emotional,
\* decision, random, knowledge, tech: whatever combination of lists a message
\* matches, the result is the earliest matching category, and general exactly
\* when the message matches none.
C21_FirstMatchWins ==
    (called.op = "detect_topic" /\ called.returned) =>
        LET hits == Hits(called.input)
        IN  /\ hits # {} =>
                 called.output = Priority[CHOOSE i \in hits : \A j \in hits : i <= j]
            /\ hits = {} <=> called.output = "general"

\* a message matching the random, knowledge and tech lists was classified
\* random, and the messages cover every combination of matched lists
C21_Witness ==
    /\ called.op = "detect_topic"
    /\ called.returned
    /\ called.output = "random"
    /\ called.input = "hello joke explain python"
    /\ Hits(called.input) = {4, 5, 6}
    /\ \A S \in SUBSET (1..Len(Priority)) :
           \E m \in ClassifierMessages : Hits(m) = S

\* the texts of MathHandler that ask the user to rephrase or to try an example
ClarificationRequests ==
    {ClearerExpression, CouldNotParse, RephraseEquation, PercentageFormats,
     PercentageTry, AgeProblems, MoneyProblems, WordProblems, MathHelp,
     MathTrouble}

\* C22: solve_math never propagates an evaluation or parse error: for every
\* input it returns a text, and whenever an exception was caught on the way
\* (malformed expression, division by zero, zero coefficient, equation outside
\* the form ax + b = c) or nothing was computed, the text is one of the
\* templated clarification requests.
C22_NoErrorPropagates ==
    (called.op = "solve_math" /\ called.returned) =>
        /\ called.output.raised = ""
        /\ called.output.caught # "" => ~called.output.answered
        /\ ~called.output.answered => called.output.text \in ClarificationRequests

\* a division by zero was answered with the could-not-parse request
C22_Witness ==
    /\ called.op = "solve_math"
    /\ called.returned
    /\ called.input = "calculate 10 / 0"
    /\ called.output.caught = "ZeroDivisionError"
    /\ called.output.text = CouldNotParse

\* C23: a linear equation with one operator is routed to math and solved: for
\* integers a # 0, b >= 0 and c, `ax + b = c` yields x with a*x + b = c and
\* `ax - b = c` yields x with a*x - b = c.
C23_LinearEquationSolved ==
    \A a \in -MaxCoefficient..MaxCoefficient, b \in 0..MaxCoefficient,
       c \in -MaxCoefficient..MaxCoefficient, sign \in {"+", "-"} :
        (/\ called.op = "solve_math"
         /\ called.returned
         /\ a # 0
         /\ called.input = Equation(a, sign, b, c))
        => LET x == called.output.value
           IN  /\ detect_topic(called.input) = "math"
               /\ called.output.answered
               /\ called.output.text = EquationSolution
               /\ a * x.num + (IF sign = "+" THEN b ELSE -b) * x.den = c * x.den

\* C24: a question `What is N% of M?` is routed to math, answered with the
\* value N*M/100, and that answer of solve_math is what
\* generate_ultimate_response returns as the reply.
C24_PercentageAnswered ==
    \A n \in {0, 7, 20, 150}, m \in {0, 3, 80, 300} :
        (/\ called.op = "solve_math"
         /\ called.returned
         /\ called.input = PercentageOf(n, m))
        => /\ detect_topic(called.input) = "math"
           /\ called.output.answered
           /\ called.output.value.num * 100 = n * m * called.output.value.den
           /\ generate_ultimate_response(called.input) = "MathHandler.solve_math"

\* C25: the winning emotion is the one whose score is strictly higher than
\* every other emotion's score; when two or more emotions share the highest
\* score, or all scores are zero, the result is neutral.
C25_StrictWinnerElseNeutral ==
    (called.op = "analyze_emotion_and_context" /\ called.returned) =>
        LET scores == called.output.emotion_scores
            winners == {k \in DOMAIN scores :
                          \A other \in DOMAIN scores \ {k} : scores[k] > scores[other]}
        IN  IF winners # {}
            THEN called.output.emotion \in winners
            ELSE called.output.emotion = "neutral"

\* the stored baseline of a user, a fraction sum/n
Baseline(user_id) == load_profile(disk, user_id).baseline_sentiment

\* fraction a is at most fraction b
NotAbove(a, b) == a.sum * b.n <= b.sum * a.n

\* the user's previous message was this message
Repeats(user_id, message) ==
    /\ committed[user_id] # <<>>
    /\ committed[user_id][Len(committed[user_id])] = message

\* the sentiments the baseline of the user is the mean of
WindowSentiments(user_id) ==
    LET recent == LastN(load_profile(disk, user_id).emotion_history, BaselineWindow)
    IN  {recent[i].sentiment : i \in 1..Len(recent)}

\* C26 as stated: from any profile reachable by earlier updates, each
\* repetition of the same message of negative sentiment leaves
\* baseline_sentiment where it was or lower.
C26_BaselineNeverRises ==
    [][\A u \in UserIds, m \in MoodMessages :
         (/\ SendMood(u, m)
          /\ Repeats(u, m)
          /\ EmotionData(m).sentiment < 0)
         => NotAbove(Baseline(u)', Baseline(u))]_vars

\* C26 amended: from a profile whose last 20 recorded sentiments are all at
\* least s, each repetition of the same message of negative sentiment s leaves
\* baseline_sentiment where it was or lower.
C26_BaselineFallsFromMilderMoods ==
    [][\A u \in UserIds, m \in MoodMessages :
         (/\ SendMood(u, m)
          /\ Repeats(u, m)
          /\ EmotionData(m).sentiment < 0
          /\ \A earlier \in WindowSentiments(u) : earlier >= EmotionData(m).sentiment)
         => NotAbove(Baseline(u)', Baseline(u))]_vars

\* after a neutral and a happy message the sad message was sent three times:
\* the baseline is (0 + 2 - 2 - 2 - 2) / 5 tenths
C26_Witness ==
    \E u \in UserIds :
        /\ committed[u] = <<"hello there", "so happy", "feeling sad", "feeling sad",
                            "feeling sad">>
        /\ Baseline(u) = [sum |-> -4, n |-> 5]

C28_ForwardCompatibleRead ==
    [][\A r \in Reqs, e \in Readings :
         LET u == chats[r].user_id
         IN  ((Chat(r, e) \/ ChatUpdateFails(r)) /\ u \in DOMAIN disk)
             => /\ chats'[r].response = "reply"
                /\ DOMAIN _create_new_profile(u) \subseteq DOMAIN disk'[u]
                /\ disk'[u].total_messages =
                       1 + (IF "total_messages" \in DOMAIN disk[u]
                            THEN disk[u].total_messages ELSE 0)]_vars


\* a complete response record: status 200 and the six fields of ChatResponse
Complete(answer) ==
    /\ answer.status_code = 200
    /\ {"response", "emotion", "sentiment", "confidence", "response_time",
        "timestamp"} \subseteq DOMAIN answer

\* C29: the chat endpoint answers every request with a complete response
\* record (response, emotion, sentiment, confidence, response time, timestamp)
\* whose response text is not empty, whatever the engine behind it did.
C29_ChatAlwaysAnswers ==
    (called.op = "chat" /\ called.returned) =>
        /\ Complete(called.output)
        /\ called.output.response # ""

\* the number of places where w occurs in s
Occurrences(s, w) ==
    Cardinality({i \in 1..(Len(s) - Len(w) + 1) : SubSeq(s, i, i + Len(w) - 1) = w})

\* the reply holds the paragraph the value calls for and neither of the other
\* two: `low` below the lower threshold, `high` above the upper one, `middle`
\* otherwise (the thresholds in tenths)
Selected(reply, value, lower_tenths, upper_tenths, low, middle, high) ==
    LET expected == IF value * 10 < lower_tenths * Scale THEN low
                    ELSE IF value * 10 > upper_tenths * Scale THEN high
                    ELSE middle
    IN  \A paragraph \in {low, middle, high} :
            Occurrences(reply, paragraph) = (IF paragraph = expected THEN 1 ELSE 0)

C31_ReportConsistent ==
    [][HealthCheck =>
         LET rate_limit == called'.output.rate_limit
         IN  /\ rate_limit.current_requests = Len(InWindow(requests, now))
             /\ rate_limit.can_make_request
                   <=> (rate_limit.current_requests < rate_limit.max_requests)]_vars

\* C35: a health check leaves the recorded attempts as they were, apart from
\* the eviction of the stale ones.
C35_ObservingConsumesNoQuota ==
    [][HealthCheck => requests' = popleft_old(requests, now)]_vars

\* the fragments are those of the exchanges, in their order: for each exchange
\* a user fragment, then its assistant fragment
Replays(fragments, exchanges) ==
    /\ Len(fragments) = 2 * Len(exchanges)
    /\ \A k \in 1..Len(exchanges) :
          /\ fragments[2 * k - 1].role = "user"
          /\ fragments[2 * k - 1].content = exchanges[k].user
          /\ fragments[2 * k].role = "assistant"
          /\ fragments[2 * k].content = exchanges[k].assistant

\* the list has the system prompt first and the message last; between them,
\* after the system fragments, it replays the most recent ReplayLimit of the
\* exchanges stored for the conversation, and nothing else
OrderedAndBounded(messages, message, stored) ==
    LET n == Len(messages)
        inner == SubSeq(messages, 2, n - 1)
        guidance == Cardinality({i \in 1..Len(inner) : inner[i].role = "system"})
    IN  /\ n >= 2
        /\ n <= 2 + 2 * ReplayLimit + 1
        /\ messages[1].role = "system"
        /\ messages[1].content = system_prompt
        /\ messages[n].role = "user"
        /\ messages[n].content = message
        /\ \A i \in 1..guidance : inner[i].role = "system"
        /\ Replays(SubSeq(inner, guidance + 1, Len(inner)), LastN(stored, ReplayLimit))

Last(seq) == seq[Len(seq)]

\* the profile already includes the message and its reading: counted in
\* total_messages, the reading last in emotion_history and inside the
\* baseline, the message last in conversation_history
Includes(profile, before, message, emotion) ==
    /\ profile.total_messages = before.total_messages + 1
    /\ profile.emotion_history # <<>>
    /\ Last(profile.emotion_history) = emotion
    /\ profile.baseline_sentiment.n = Min(Len(before.emotion_history) + 1, BaselineWindow)
    /\ profile.baseline_sentiment.sum =
          SumSentiment(LastN(Append(before.emotion_history, emotion), BaselineWindow))
    /\ profile.conversation_history # <<>>
    /\ Last(profile.conversation_history) = [message |-> message, emotion |-> emotion]

\* C33: within one request the profile update completes, persist last, before
\* the topic is classified and the handler dispatched: the profile the
\* dispatcher hands to the handler is the persisted one and already includes
\* the current message in total_messages, baseline_sentiment and
\* conversation_history.
C33_UpdateBeforeDispatch ==
    [][\A r \in Reqs, e \in Readings :
          Chat(r, e) =>
              LET u == chats[r].user_id
                  given == called'.input.user_profile
              IN  /\ called'.op = chats'[r].responder
                  /\ Includes(given, load_profile(disk, u), chats[r].message, e)
                  /\ Includes(disk'[u], load_profile(disk, u), chats[r].message, e)
                  /\ given = disk'[u]]_vars

\* C33 witness: the handler of a user's second message was given a profile
\* that counts two messages and holds both, with a sad reading in the baseline
C33_Witness ==
    /\ called.op = "_generate_personalized_response"
    /\ called.input.user_profile.total_messages = 2
    /\ Len(called.input.user_profile.conversation_history) = 2
    /\ Last(called.input.user_profile.conversation_history).message = called.input.message
    /\ called.input.user_profile.baseline_sentiment.sum < 0
    /\ called.input.user_profile.user_id \in DOMAIN disk
    /\ disk[called.input.user_profile.user_id] = called.input.user_profile

\* a call of generate_response or stream_response that the limiter admits
AdmittedCall ==
    /\ \/ \E m \in Messages, c \in ConversationIds, e \in UserEmotions, st \in BOOLEAN :
             GenerateResponse(m, c, e, st)
       \/ \E t \in Tasks, m \in Messages, c \in ConversationIds, e \in UserEmotions :
             StreamResponse(t, m, c, e)
    /\ ret'.outcome # "rate_limited"

\* the attempts of `before` that are inside the window at time t are all in
\* `after`, in their order and ahead of any newer attempt
Kept(before, after, t) ==
    LET inside == InWindow(before, t)
    IN  /\ Len(InWindow(after, t)) >= Len(inside)
        /\ SubSeq(InWindow(after, t), 1, Len(inside)) = inside

\* C34: an admitted request records its attempt, whatever the provider does
\* then, and no step takes a recorded attempt back while it is inside the
\* window: a provider call that fails, or a stream that fails midway, still
\* occupies its slot until it ages out.
C34_AttemptRecordedAndKept ==
    [][/\ AdmittedCall => requests' = Append(InWindow(requests, now), now)
       /\ Kept(requests, requests', now')]_vars

\* C34 witness: a stream has failed midway, after a token and a tick of the
\* clock, and the attempt it recorded is still counted inside the window
C34_Witness ==
    /\ ret.op = "stream_response"
    /\ ret.outcome = "fallback"
    /\ Len(ret.events) >= 2
    /\ requests # <<>>
    /\ now > requests[Len(requests)]
    /\ InWindow(requests, now) = requests

\* the chat handler runs for a request of the user
ChatOf(user_id) ==
    \E r \in Reqs, e \in Readings : chats[r].user_id = user_id /\ Chat(r, e)

\* C37: reading never writes.  A summary request for any user id, known or
\* unknown, leaves the persisted store as it is (for an unknown id the result
\* is that of a default profile and no record is created); a record is
\* created or changed only by the update of a chat request of that user and
\* removed only by an erase of that user.
C37_ReadingNeverWrites ==
    [][/\ \A u \in UserIds :
            GetUserMemory(u) =>
                /\ disk' = disk
                /\ called'.output = get_user_summary(disk', u)
                /\ u \notin DOMAIN disk =>
                      /\ called'.output.total_messages = 0
                      /\ called'.output.name = "Unknown"
       /\ \A u \in UserIds :
            /\ (u \in DOMAIN disk' /\ (u \notin DOMAIN disk \/ disk'[u] # disk[u]))
                  => ChatOf(u)
            /\ (u \in DOMAIN disk /\ u \notin DOMAIN disk')
                  => ClearUserMemory(u)]_vars

\* C37 witness: the summary of a user without a record was returned, after
\* another user's record was written, and the user still has no record
C37_Witness ==
    /\ called.op = "get_user_summary"
    /\ called.input \notin DOMAIN disk
    /\ called.output.total_messages = 0
    /\ called.output.name = "Unknown"
    /\ disk # <<>>

\* a dictionary holds under every key but `key` what it held before
OthersUntouched(before, after, key, keys) ==
    \A k \in keys \ {key} :
        /\ (k \in DOMAIN after) <=> (k \in DOMAIN before)
        /\ k \in DOMAIN before => after[k] = before[k]

\* C38: state is isolated per key.  Appending to or clearing the history of
\* one conversation id leaves the history of every other conversation id as it
\* was, and updating or erasing the profile of one user id leaves the
\* persisted profile of every other user id as it was.
C38_IsolatedPerKey ==
    [][/\ \A c \in ConversationIds :
            ((\E m \in Messages, e \in PassedEmotions : UpdateConversation(c, m, e))
                \/ ClearConversation(c))
            => OthersUntouched(conversation_history, conversation_history', c,
                               ConversationIds)
       /\ \A u \in UserIds :
            (ChatOf(u) \/ ClearUserMemory(u))
            => OthersUntouched(disk, disk', u, UserIds)]_vars

\* C38 witness: each of the two conversations holds the one exchange
\* appended to it and each of the two users the profile of the one message
\* they sent
C38_Witness ==
    /\ DOMAIN conversation_history = ConversationIds
    /\ \A c \in ConversationIds : Len(conversation_history[c]) = 1
    /\ DOMAIN disk = UserIds
    /\ \A u \in UserIds :
          /\ disk[u].total_messages = 1
          /\ disk[u].user_id = u
    /\ \E u, v \in UserIds :
          disk[u].conversation_history # disk[v].conversation_history

\* both decision-making traits of the profile are 0.5
DefaultTraits(profile) ==
    /\ profile.risk_tolerance = Scale \div 2
    /\ profile.analytical_vs_intuitive = Scale \div 2

\* C39: no message-driven operation changes the decision-making traits: in
\* every profile reached from a default profile by load, update and erase,
\* risk_tolerance and analytical_vs_intuitive are both 0.5, and for the
\* profile it is given DecisionHandler.help_decide answers with the balanced
\* framework and the balanced risk paragraph.
C39_DecisionTraitsStatic ==
    /\ \A u \in UserIds :
          /\ DefaultTraits(load_profile(disk, u))
          /\ Contains(help_decide("should i move abroad", load_profile(disk, u)),
                      BalancedApproach \o BalancedRisk)
    /\ called.op = "DecisionHandler.help_decide" =>
          /\ DefaultTraits(called.input.user_profile)
          /\ Contains(help_decide(called.input.message, called.input.user_profile),
                      BalancedApproach \o BalancedRisk)

\* C39 witness: help_decide was given the profile of a user after two
\* messages, one of which moved the formality of the profile
C39_Witness ==
    /\ called.op = "DecisionHandler.help_decide"
    /\ called.input.user_profile.total_messages = 2
    /\ called.input.user_profile.formality # Scale \div 2
    /\ DefaultTraits(called.input.user_profile)

\* a step of stream t that ends with the stream completed
Completes(t) ==
    /\ \/ StreamResume(t)
       \/ \E m \in StreamedMessages, c \in ConversationIds : StreamStart(t, m, c, NoEmotion)
    /\ ret'.op = "stream_response"
    /\ ret'.outcome = "completed"

\* C36: when streamed responses overlap, for the same conversation id too,
\* every stream that completes appends its own exchange (its message, the
\* fragments it emitted) to the history of its conversation exactly once, at
\* its completion, after the entries already there; no stored exchange is
\* lost or doubled, the other streams keep what they have received, a stream
\* appends nothing before it completes, and no history exceeds 20 entries.
C36_OverlappingStreamsAppendOnce ==
    [][/\ \A t \in Tasks :
            /\ (StreamResume(t) /\ Completes(t)) =>
                  LET c == tasks[t].conversation_id
                      own == [user |-> tasks[t].message,
                              assistant |-> Fragments(ret'.events)]
                  IN  /\ own.assistant = tasks[t].full_response
                      /\ HistoryOf(conversation_history', c) =
                            LastN(Append(HistoryOf(conversation_history, c), own),
                                  HistoryLimit)
                      /\ OthersUntouched(conversation_history, conversation_history',
                                         c, ConversationIds)
                      /\ \A o \in Tasks \ {t} : tasks'[o] = tasks[o]
            /\ (StreamResume(t) /\ ~Completes(t)) =>
                  conversation_history' = conversation_history
       /\ \A c \in ConversationIds :
            /\ Len(HistoryOf(conversation_history', c)) <= HistoryLimit
            /\ HistoryOf(conversation_history', c) = LastN(exchanged'[c], HistoryLimit)
      ]_vars

\* C36 witness: a stream of the conversation "default", which holds 20
\* entries after more than 20 exchanges, has just completed and stored its
\* exchange as the newest entry while another stream of the same
\* conversation, with another message, has fragments received and is still
\* in flight (no stream of the other conversation has completed)
C36_Witness ==
    /\ DOMAIN conversation_history = {"default"}
    /\ Len(exchanged["default"]) > HistoryLimit
    /\ Len(conversation_history["default"]) = HistoryLimit
    /\ ret.op = "stream_response"
    /\ ret.outcome = "completed"
    /\ conversation_history["default"][HistoryLimit].assistant = Fragments(ret.events)
    /\ \E o \in Tasks :
          /\ tasks[o].pc = "streaming"
          /\ tasks[o].conversation_id = "default"
          /\ tasks[o].full_response # <<>>
          /\ tasks[o].full_response # Fragments(ret.events)
          /\ tasks[o].message # conversation_history["default"][HistoryLimit].user

====
